---------------------------- MODULE Spec2Model ----------------------------
(***************************************************************************)
(* Eventure: the ticket workflows of the front-end (mint, resale purchase, *)
(* ticket-list fetch with its missed-event penalty, mark-attendance,       *)
(* cancel-event) as state machines over the rows of the hosted data store. *)
(* Every await of a handler is a step boundary: the store is read or       *)
(* written once per step, and other flows may run between two steps.       *)
(* A store or chain call may fail; the handler's own error branch is then  *)
(* taken.                                                                  *)
(***************************************************************************)
EXTENDS Integers, Sequences, FiniteSets, TLC

(***************************************************************************)
(* Bounds of the model.                                                    *)
(***************************************************************************)
\* number of concurrent handleBuyTicket invocations
NMint == 2
\* largest max_ticket an event is created with
MaxTicket == 1
\* the clock runs from 0 to MaxTime
MaxTime == 1
\* ticket rows the store holds at the start of the resale and organizer runs
NSeed == 2
\* number of My Tickets page loads (fetchTickets invocations)
NFetch == 2
\* number of handleCancelEvent invocations
NCancel == 2
\* number of handleMarkAttendance invocations
NMark == 2
\* reputation taken for a missed event
MissedPenalty == 2
\* reputation taken from the organizer of a cancelled event
CancelPenalty == 5
\* reputation given for an attended event
AttendanceReward == 5
\* resale listings the store holds at the start of the resale runs
NListing == 1
\* number of concurrent handlePurchaseResale invocations (Resale page)
NPurchase == 2
\* number of concurrent handleBuy invocations (Resaleing page)
NBuy == 1
\* number of My Tickets pages on which a resale button is clicked
NOffer == 2
\* number of Profile views and of Dashboard views that are mounted
NView == 2
\* number of fetchProfile calls a realtime callback has in flight per view
NRefetch == 2

(***************************************************************************)
(* Values.                                                                 *)
(***************************************************************************)
Users == {"u1", "u2", "u3"}
EventIds == {"e1", "e2"}
\* wallet addresses as the wallet provider reports them (lower case); a stored
\* organizer_wallet may be spelled with capitals ("0xA1") or be absent
Wallets == {"0xa1", "0xb2"}
NoWallet == ""
\* the value of a column the row does not carry
Undefined == "<undefined>"

MintFlows == 1..NMint
PurchaseFlows == 1..NPurchase
BuyFlows == 1..NBuy
OfferFlows == 1..NOffer
ProfileViews == 1..NView
DashboardViews == 1..NView
SeedIds == 1..NSeed
ListingIds == 1..NListing
FetchFlows == 1..NFetch
CancelFlows == 1..NCancel
MarkFlows == 1..NMark
\* the My Tickets page of src/src/pages and the older one of the same name
FetchVersions == {"current", "older"}
\* handleMarkAttendance with two profile updates (A) and with one (B)
MarkVersions == {"A", "B"}

\* the signed-in user of the browser session a flow runs in; with more flows
\* than users a user has several tabs (or clicks twice)
SessionUser(f) == IF f % 2 = 1 THEN "u1" ELSE "u2"

VARIABLES
  now,              \* the current time (new Date())
  events,           \* table events: event_id -> row
  tickets,          \* table tickets: id -> row, NoRow while the id is unused
  user_profiles,    \* table user_profiles: email -> row
  chainMints,       \* chain contract: confirmed mintTicket transactions per event
  mint,             \* handleBuyTicket invocations: flow -> position and locals
  alertMsg,         \* the last alert() shown
  minted,           \* history: mints of an event completed with every write done
  overlap,          \* history: two mints of an event have run at the same time
  resale_listings,  \* table resale_listings: id -> row, NoRow once deleted
  chainResales,     \* chain contract: confirmed resale transfers
  purchase,         \* handlePurchaseResale invocations (Resale page)
  buy,              \* handleBuy invocations (Resaleing page)
  offer,            \* handleResale and handleCancelResale invocations (My Tickets page)
  profilePage,      \* mounted Profile views: their effect's locals and initialize()
  dashboardPage,    \* mounted Dashboard views
  channels,         \* the realtime channels the store client holds
  cachedProfile,    \* localStorage item 'cachedProfile'
  profileState,     \* the state of each Profile view: loading, error, profile
  refetch,          \* fetchProfile calls started by a Profile view's realtime callback
  notices,          \* change notifications on their way to a Profile view's channel
  profiles,         \* table profiles, the one the older My Tickets page uses
  fetch,            \* fetchTickets invocations (My Tickets page, both versions)
  cancel,           \* handleCancelEvent invocations (My Events page)
  mark,             \* handleMarkAttendance invocations (My Events page, both versions)
  penalties,        \* history: times a reputation was lowered for a missed event, per ticket
  cancelPenalties,  \* history: cancellation penalties written, per event
  markCalls,        \* history: handleMarkAttendance invocations, per version and attendee
  marksDone,        \* history: invocations that wrote the whole reward, likewise
  markOverlap       \* history: two handleMarkAttendance invocations have overlapped

mintSide == <<chainMints, mint, minted, overlap>>
resaleSide == <<resale_listings, chainResales, purchase, buy, offer>>
viewRest == <<profilePage, dashboardPage, channels, cachedProfile, profileState, refetch>>
viewSide == <<viewRest, notices>>
orgSide == <<profiles, fetch, cancel, mark, penalties, cancelPenalties, markCalls, marksDone,
            markOverlap>>

vars == <<now, events, tickets, user_profiles, alertMsg, mintSide, resaleSide, orgSide, viewSide>>

store == <<events, tickets, user_profiles>>

\* the user signed in on Profile view v
ProfileUser(v) == "u1"

\* the channel that a view creates
ProfileChannel(v) == [table |-> "user_profiles", view |-> v]
EventsChannel(d) == [table |-> "events", view |-> d]

\* the store's realtime publication: an update of the user_profiles row of u
\* sends a change notification to every channel subscribed with the filter
\* id=eq.<u>
Publish(u, written) ==
  notices' = [v \in ProfileViews |->
                IF written /\ ProfileChannel(v) \in channels /\ ProfileUser(v) = u
                  THEN notices[v] + 1 ELSE notices[v]]

(***************************************************************************)
(* Pure helpers of the pages.                                              *)
(***************************************************************************)
\* isEventExpired(eventDate): new Date(eventDate) < new Date()
isEventExpired(eventDate, t) == eventDate < t

\* String.prototype.toLowerCase on the spellings above
toLowerCase(s) == IF s = "0xA1" THEN "0xa1" ELSE s

\* String(x): an absent column prints as "undefined"
StringOf(x) == IF x = Undefined THEN "undefined" ELSE x

\* walletAddress.toLowerCase() === String(event.organizer_wallet).toLowerCase()
IsOrganizerWallet(walletAddress, organizer_wallet) ==
  toLowerCase(walletAddress) = toLowerCase(StringOf(organizer_wallet))

\* eventData.ticket_sold >= eventData.max_ticket
OffByOneSoldOut(ticket_sold, max_ticket) == ticket_sold > max_ticket

IsSoldOut(ticket_sold, max_ticket) == ticket_sold >= max_ticket

\* userProfile.reputation < reputation_req
NoReputationCheck(reputation, reputation_req) == FALSE

LacksReputation(reputation, reputation_req) == reputation < reputation_req

\* { ticket_sold: eventData.ticket_sold + 1 }: the value read at the
\* availability check plus one, whatever the row holds by now
SoldIncrementedInStore(soldRead, soldNow) == soldNow + 1

SoldAfterMint(soldRead, soldNow) == soldRead + 1

NoRow == [event_id |-> "none"]

\* a null in a column of row ids or token ids, which start at 1
NullId == 0

TicketsOf(e) == {i \in DOMAIN tickets : tickets[i].event_id = e}

\* the id the store gives the row a mint flow inserts (ids are unique, no more)
MintTicketId(f) == f

NewTicket(e, email, addr) ==
  [event_id |-> e, user_email |-> email, owner_address |-> addr,
   token_id |-> NullId, attended |-> FALSE, refunded |-> FALSE, reputation_decreased |-> FALSE]

(***************************************************************************)
(* handleBuyTicket (with its caller handleBuyClick).                       *)
(* The event argument is the view's copy of the row; the columns the flow  *)
(* reads from it (event_id, date, organizer_wallet, reputation_req) are    *)
(* written by no handler, so the copy equals the stored row in them.       *)
(***************************************************************************)
MintIdle ==
  [pc |-> "idle", event |-> "e1", wallet |-> NoWallet,
   soldRead |-> 0, repRead |-> 0, mintedRead |-> 0, soldOk |-> FALSE,
   \* history: the event was cancelled in the store when mintTicket was called
   calledCancelled |-> FALSE]

MintResumed(how) == [MintIdle EXCEPT !.pc = "insert"]

\* a flow that ended keeps nothing: its locals are gone, its alert is shown
MintEnded(how) == [MintIdle EXCEPT !.pc = how]

MintActive(f) == mint[f].pc \notin {"idle", "done", "failed"}

\* the flow has passed every precondition: mintTicket is (about to be) invoked
MintPastChecks(f) ==
  mint[f].pc \in {"mintTicket", "wait", "insert", "updateSold",
                  "selectMinted", "updateMinted"}

\* the flow ends in its catch block: alert(err.message)
MintFail(f, why) ==
  /\ mint' = [mint EXCEPT ![f] = MintEnded("failed")]
  /\ alertMsg' = why
  /\ UNCHANGED <<minted>>

\* the flow goes on to its next await
MintGoto(f, m) ==
  /\ mint' = [mint EXCEPT ![f] = m]
  /\ UNCHANGED <<alertMsg, minted>>

\* the flow ends with alert('Ticket purchased successfully!'); history: a mint
\* whose ticket row and ticket_sold writes both succeeded is counted
MintDone(f) ==
  /\ mint' = [mint EXCEPT ![f] = MintEnded("done")]
  /\ alertMsg' = "purchased"
  /\ minted' = IF mint[f].soldOk
                 THEN [minted EXCEPT ![mint[f].event] = @ + 1]
                 ELSE minted

\* click on Buy Ticket: the synchronous part of the flow, up to the first await
HandleBuyClick(f, e, w, hasEthereum) ==
  /\ mint[f].pc = "idle"
  /\ IF w = NoWallet THEN MintFail(f, "wallet")
     ELSE IF ~hasEthereum THEN MintFail(f, "metamask")
     ELSE IF isEventExpired(events[e].date, now) THEN MintFail(f, "expired")
     ELSE IF IsOrganizerWallet(w, events[e].organizer_wallet)
       THEN MintFail(f, "organizer")
     ELSE MintGoto(f, [mint[f] EXCEPT !.pc = "getUser", !.event = e, !.wallet = w])
  \* history: a mint of e starts while another mint of e is under way
  /\ overlap' = IF \E g \in MintFlows \ {f} : MintActive(g) /\ mint[g].event = e
                  THEN [overlap EXCEPT ![e] = TRUE]
                  ELSE overlap
  /\ UNCHANGED <<now, store, chainMints, resaleSide, viewSide, orgSide>>

\* await supabase.auth.getUser()
MintGetUser(f, loggedIn) ==
  /\ mint[f].pc = "getUser"
  /\ IF loggedIn THEN MintGoto(f, [mint[f] EXCEPT !.pc = "fetchEvent"])
                 ELSE MintFail(f, "login")
  /\ UNCHANGED <<now, store, chainMints, overlap, resaleSide, viewSide, orgSide>>

\* select max_ticket, ticket_sold of the event; the sold-out check
MintFetchEvent(f, ok) ==
  /\ mint[f].pc = "fetchEvent"
  /\ LET row == events[mint[f].event]
     IN IF ~ok THEN MintFail(f, "fetch")
        ELSE IF IsSoldOut(row.ticket_sold, row.max_ticket) THEN MintFail(f, "soldout")
        ELSE MintGoto(f, [mint[f] EXCEPT !.pc = "fetchProfile",
                                         !.soldRead = row.ticket_sold])
  /\ UNCHANGED <<now, store, chainMints, overlap, resaleSide, viewSide, orgSide>>

\* select reputation of the buyer; the reputation check
MintFetchProfile(f, ok) ==
  /\ mint[f].pc = "fetchProfile"
  /\ LET rep == user_profiles[SessionUser(f)].reputation
     IN IF ~ok THEN MintFail(f, "profile")
        ELSE IF LacksReputation(rep, events[mint[f].event].reputation_req)
          THEN MintFail(f, "reputation")
        ELSE MintGoto(f, [mint[f] EXCEPT !.pc = "mintTicket", !.repRead = rep])
  /\ UNCHANGED <<now, store, chainMints, overlap, resaleSide, viewSide, orgSide>>

\* getSigner and contract.mintTicket(...): the wallet may reject
MintCallChain(f, accepted) ==
  /\ mint[f].pc = "mintTicket"
  /\ IF accepted
       THEN MintGoto(f, [mint[f] EXCEPT !.pc = "wait",
              !.calledCancelled = events[mint[f].event].is_cancelled])
       ELSE MintFail(f, "chain")
  /\ UNCHANGED <<now, store, chainMints, overlap, resaleSide, viewSide, orgSide>>

\* await txResponse.wait()
MintWait(f, mined) ==
  /\ mint[f].pc = "wait"
  /\ IF mined
       THEN /\ chainMints' = [chainMints EXCEPT ![mint[f].event] = @ + 1]
            /\ MintGoto(f, [mint[f] EXCEPT !.pc = "insert"])
       ELSE /\ MintFail(f, "chain")
            /\ UNCHANGED chainMints
  /\ UNCHANGED <<now, store, overlap, resaleSide, viewSide, orgSide>>

\* insert into tickets
MintInsert(f, ok) ==
  /\ mint[f].pc = "insert"
  /\ IF ok
       THEN /\ tickets' = [tickets EXCEPT ![MintTicketId(f)] =
                 NewTicket(mint[f].event, SessionUser(f), mint[f].wallet)]
            /\ MintGoto(f, [mint[f] EXCEPT !.pc = "updateSold"])
       ELSE /\ MintFail(f, "insert")
            /\ UNCHANGED tickets
  /\ UNCHANGED <<now, events, user_profiles, chainMints, overlap, resaleSide, viewSide, orgSide>>

RowAsFetched(row, soldRead) ==
  [row EXCEPT !.ticket_sold = soldRead + 1, !.is_cancelled = FALSE]

\* .update({ ticket_sold: ... }): the one column of the row is written
SoldUpdated(row, soldRead) ==
  [row EXCEPT !.ticket_sold = SoldAfterMint(soldRead, row.ticket_sold)]

StopsOnError(ok) == IF ok THEN "selectMinted" ELSE "failed"

\* if (updateError) console.warn(...): the flow goes on either way
AfterUpdateSold(ok) == "selectMinted"

\* update events set ticket_sold = eventData.ticket_sold + 1 (a failure is logged)
MintUpdateSold(f, ok) ==
  /\ mint[f].pc = "updateSold"
  /\ IF ok
       THEN /\ events' = [events EXCEPT ![mint[f].event] =
                                            SoldUpdated(@, mint[f].soldRead)]
            /\ MintGoto(f, [mint[f] EXCEPT !.pc = AfterUpdateSold(ok), !.soldOk = TRUE])
       ELSE /\ MintGoto(f, [mint[f] EXCEPT !.pc = AfterUpdateSold(ok)])
            /\ UNCHANGED events
  /\ UNCHANGED <<now, tickets, user_profiles, chainMints, overlap, resaleSide, viewSide, orgSide>>

\* select total_tickets_minted of the buyer (a failure is logged)
MintSelectMinted(f, ok) ==
  /\ mint[f].pc = "selectMinted"
  /\ IF ok
       THEN MintGoto(f, [mint[f] EXCEPT !.pc = "updateMinted",
              !.mintedRead = user_profiles[SessionUser(f)].total_tickets_minted])
       ELSE MintDone(f)
  /\ UNCHANGED <<now, store, chainMints, overlap, resaleSide, viewSide, orgSide>>

\* update user_profiles set total_tickets_minted = count + 1 (a failure is logged)
MintUpdateMinted(f, ok) ==
  /\ mint[f].pc = "updateMinted"
  /\ IF ok
       THEN user_profiles' = [user_profiles EXCEPT
              ![SessionUser(f)].total_tickets_minted = mint[f].mintedRead + 1]
       ELSE UNCHANGED user_profiles
  /\ MintDone(f)
  /\ UNCHANGED <<now, events, tickets, chainMints, overlap, resaleSide, viewRest, orgSide>>
  /\ Publish(SessionUser(f), ok)

(***************************************************************************)
(* The resale marketplace: handlePurchaseResale on the Resale page and     *)
(* handleBuy on the Resaleing page.  Each page works on the copy of the    *)
(* listing row it fetched when it was loaded.                              *)
(***************************************************************************)
\* the session each page instance runs in
PurchaseUser(f) == IF f % 3 = 1 THEN "u2" ELSE IF f % 3 = 2 THEN "u1" ELSE "u3"

BuyUser(g) == IF g % 2 = 1 THEN "u1" ELSE "u2"

\* signer.getAddress(): the account of the wallet in the user's browser
SignerAddress(u) == IF u = "u1" THEN "0xa1" ELSE IF u = "u2" THEN "0xb2" ELSE "0xc3"

isEventUpcoming(eventDate, t) == eventDate > t

\* the rows both pages show: .eq('is_sold', false), then the filter on the
\* joined event (not cancelled, date in the future)
Listed ==
  {l \in DOMAIN resale_listings :
     /\ resale_listings[l] # NoRow
     /\ ~resale_listings[l].is_sold
     /\ ~events[resale_listings[l].event_id].is_cancelled
     /\ isEventUpcoming(events[resale_listings[l].event_id].date, now)}

NoListing == [id |-> 0]

\* the page's copy of listing row l; the Resaleing page joins the ticket row
ListingCopy(l) ==
  [id |-> l,
   event_id |-> resale_listings[l].event_id,
   seller_email |-> resale_listings[l].seller_email,
   seller_address |-> resale_listings[l].seller_address,
   ticket_id |-> resale_listings[l].ticket_id,
   token_id |-> IF resale_listings[l].ticket_id = NullId
                  THEN NullId
                  ELSE tickets[resale_listings[l].ticket_id].token_id]

PurchaseIdle == [pc |-> "idle", listing |-> NoListing]

BuyIdle == [pc |-> "idle", listing |-> NoListing, wallet |-> NoWallet]

\* the handler has returned: its locals are gone
PurchaseEnd(f, how, msg) ==
  /\ purchase' = [purchase EXCEPT ![f] = [PurchaseIdle EXCEPT !.pc = how]]
  /\ alertMsg' = msg

PurchaseGoto(f, to) ==
  /\ purchase' = [purchase EXCEPT ![f].pc = to]
  /\ UNCHANGED alertMsg

BuyEnd(g, how, msg) ==
  /\ buy' = [buy EXCEPT ![g] = [BuyIdle EXCEPT !.pc = how]]
  /\ alertMsg' = msg

BuyGoto(g, to) ==
  /\ buy' = [buy EXCEPT ![g].pc = to]
  /\ UNCHANGED alertMsg

\* Resale page loaded: fetchResaleTickets; l is the row the user will click
FetchResaleTickets(f, l) ==
  /\ purchase[f].pc = "idle"
  /\ l \in Listed
  /\ purchase' = [purchase EXCEPT ![f] = [pc |-> "listed", listing |-> ListingCopy(l)]]
  /\ UNCHANGED <<now, store, alertMsg, mintSide, viewSide, orgSide, offer, resale_listings, chainResales, buy>>

\* click on the listing: handlePurchaseResale runs up to auth.getUser()
HandlePurchaseResale(f) ==
  /\ purchase[f].pc = "listed"
  /\ PurchaseGoto(f, "getUser")
  /\ UNCHANGED <<now, store, mintSide, viewSide, orgSide, offer, resale_listings, chainResales, buy>>

\* the session, the own-listing check, the confirm dialog, the wallet check
PurchaseGetUser(f, loggedIn, confirmed, hasEthereum) ==
  /\ purchase[f].pc = "getUser"
  /\ IF ~loggedIn THEN PurchaseEnd(f, "failed", "signin")
     ELSE IF PurchaseUser(f) = purchase[f].listing.seller_email
       THEN PurchaseEnd(f, "failed", "own")
     ELSE IF ~confirmed THEN PurchaseEnd(f, "failed", alertMsg)
     ELSE IF ~hasEthereum THEN PurchaseEnd(f, "failed", "metamask")
     ELSE PurchaseGoto(f, "requestAccounts")
  /\ UNCHANGED <<now, store, mintSide, viewSide, orgSide, offer, resale_listings, chainResales, buy>>

\* eth_requestAccounts and getSigner: the wallet grants the account or not
PurchaseConnect(f, ok) ==
  /\ purchase[f].pc = "requestAccounts"
  /\ IF ok THEN PurchaseGoto(f, "buyResaleTicket")
     ELSE PurchaseEnd(f, "failed", "chain")
  /\ UNCHANGED <<now, store, mintSide, viewSide, orgSide, offer, resale_listings, chainResales, buy>>

\* contract.buyResaleTicket(seller_address, event_id, {value})
PurchaseCallChain(f, accepted) ==
  /\ purchase[f].pc = "buyResaleTicket"
  /\ IF accepted THEN PurchaseGoto(f, "wait")
     ELSE PurchaseEnd(f, "failed", "chain")
  /\ UNCHANGED <<now, store, mintSide, viewSide, orgSide, offer, resale_listings, chainResales, buy>>

\* transaction.wait(): the transfer is on chain iff receipt.status is 1
PurchaseWait(f, status1) ==
  /\ purchase[f].pc = "wait"
  /\ IF status1
       THEN /\ chainResales' = chainResales + 1
            /\ PurchaseGoto(f, "delete")
       ELSE /\ PurchaseEnd(f, "failed", "chain")
            /\ UNCHANGED chainResales
  /\ UNCHANGED <<now, store, mintSide, viewSide, orgSide, offer, resale_listings, buy>>

PurchaseGoesOn(f, msg) == PurchaseGoto(f, "updateTicket")

\* if (deleteError) { alert(...); return; }
PurchaseStops(f, msg) == PurchaseEnd(f, "failed", msg)

\* delete the listing row by id
PurchaseDelete(f, ok) ==
  /\ purchase[f].pc = "delete"
  /\ IF ok
       THEN /\ resale_listings' = [resale_listings EXCEPT ![purchase[f].listing.id] = NoRow]
            /\ PurchaseGoto(f, "updateTicket")
       ELSE /\ PurchaseStops(f, "dbdelete")
            /\ UNCHANGED resale_listings
  /\ UNCHANGED <<now, store, mintSide, viewSide, orgSide, offer, chainResales, buy>>

\* update tickets set user_email, owner_address
\*   where event_id = listing.event_id and user_email = listing.seller_email
PurchaseUpdateTicket(f, ok) ==
  /\ purchase[f].pc = "updateTicket"
  /\ IF ok
       THEN /\ tickets' =
                 [i \in DOMAIN tickets |->
                    IF /\ tickets[i].event_id = purchase[f].listing.event_id
                       /\ tickets[i].user_email = purchase[f].listing.seller_email
                      THEN [tickets[i] EXCEPT
                              !.user_email = PurchaseUser(f),
                              !.owner_address = SignerAddress(PurchaseUser(f))]
                      ELSE tickets[i]]
            /\ PurchaseEnd(f, "done", "purchased")
       ELSE /\ PurchaseEnd(f, "failed", "dbticket")
            /\ UNCHANGED tickets
  /\ UNCHANGED <<now, events, user_profiles, mintSide, viewSide, orgSide, offer, resale_listings, chainResales, buy>>

\* Resaleing page loaded: fetchListings, and walletAddress from localStorage;
\* the page renders a row only with its joined ticket
FetchListings(g, l, w) ==
  /\ buy[g].pc = "idle"
  /\ l \in Listed
  /\ resale_listings[l].ticket_id # NullId
  /\ w \in {NoWallet, SignerAddress(BuyUser(g))}
  /\ buy' = [buy EXCEPT ![g] = [pc |-> "listed", listing |-> ListingCopy(l), wallet |-> w]]
  /\ UNCHANGED <<now, store, alertMsg, mintSide, viewSide, orgSide, offer, resale_listings, chainResales, purchase>>

\* click on Buy Ticket: handleBuy runs up to provider.getSigner()
HandleBuy(g, hasEthereum) ==
  /\ buy[g].pc = "listed"
  /\ IF hasEthereum THEN BuyGoto(g, "getSigner")
     ELSE BuyEnd(g, "failed", "metamask")
  /\ UNCHANGED <<now, store, mintSide, viewSide, orgSide, offer, resale_listings, chainResales, purchase>>

BuyGetSigner(g, ok) ==
  /\ buy[g].pc = "getSigner"
  /\ IF ok THEN BuyGoto(g, "getUser")
     ELSE BuyEnd(g, "failed", "chain")
  /\ UNCHANGED <<now, store, mintSide, viewSide, orgSide, offer, resale_listings, chainResales, purchase>>

BuyGetUser(g, loggedIn) ==
  /\ buy[g].pc = "getUser"
  /\ IF loggedIn THEN BuyGoto(g, "updateTicket")
     ELSE BuyEnd(g, "failed", "login")
  /\ UNCHANGED <<now, store, mintSide, viewSide, orgSide, offer, resale_listings, chainResales, purchase>>

\* update tickets set owner_address, user_email where id = listing.ticket_id;
\* the result is not looked at
BuyUpdateTicket(g, ok) ==
  /\ buy[g].pc = "updateTicket"
  /\ tickets' = IF ok /\ tickets[buy[g].listing.ticket_id] # NoRow
                  THEN [tickets EXCEPT ![buy[g].listing.ticket_id] =
                          [@ EXCEPT !.owner_address = buy[g].wallet,
                                    !.user_email = BuyUser(g)]]
                  ELSE tickets
  /\ BuyGoto(g, "markSold")
  /\ UNCHANGED <<now, events, user_profiles, mintSide, viewSide, orgSide, offer, resale_listings, chainResales, purchase>>

\* update resale_listings set is_sold = true where id = listing.id;
\* the result is not looked at
BuyMarkSold(g, ok) ==
  /\ buy[g].pc = "markSold"
  /\ resale_listings' = IF ok /\ resale_listings[buy[g].listing.id] # NoRow
                          THEN [resale_listings EXCEPT ![buy[g].listing.id].is_sold = TRUE]
                          ELSE resale_listings
  /\ BuyGoto(g, "transfer")
  /\ UNCHANGED <<now, store, mintSide, viewSide, orgSide, offer, chainResales, purchase>>

\* contract.safeTransferFrom(seller_address, walletAddress, BigInt(token_id)):
\* BigInt(null) throws, and so does an empty address
BuyTransfer(g, accepted) ==
  /\ buy[g].pc = "transfer"
  /\ IF /\ accepted
        /\ buy[g].listing.token_id # NullId
        /\ buy[g].wallet # NoWallet
       THEN BuyGoto(g, "wait")
       ELSE BuyEnd(g, "failed", "chain")
  /\ UNCHANGED <<now, store, mintSide, viewSide, orgSide, offer, resale_listings, chainResales, purchase>>

\* tx.wait()
BuyWait(g, mined) ==
  /\ buy[g].pc = "wait"
  /\ IF mined
       THEN /\ chainResales' = chainResales + 1
            /\ BuyEnd(g, "done", "purchased")
       ELSE /\ UNCHANGED chainResales
            /\ BuyEnd(g, "failed", "chain")
  /\ UNCHANGED <<now, store, mintSide, viewSide, orgSide, offer, resale_listings, purchase>>

(***************************************************************************)
(* Resale buttons of the My Tickets page (Mytickets.jsx).  A page shows, for
   a ticket of its fetched list, "Resale Ticket" or "Cancel Resale"; what it
   shows is computed when the page renders from the rows it fetched. *)

\* the user signed in on My Tickets page p
OfferUser(p) == IF p <= 2 THEN "u1" ELSE "u2"

\* the row id the store gives the listing inserted by page p
OfferListingId(p) == NListing + p

\* render: isEventPassed = eventDate < new Date()
isEventPassed(eventDate, t) == eventDate < t

\* render: canResale = !isEventPassed && !ticket.events?.is_cancelled && !ticket.attended
canResale(i) ==
  /\ ~isEventPassed(events[tickets[i].event_id].date, now)
  /\ ~events[tickets[i].event_id].is_cancelled
  /\ ~tickets[i].attended

\* a delete that looks at the event only
ListingsOfEvent(eventId, seller) ==
  {l \in DOMAIN resale_listings :
     resale_listings[l] # NoRow /\ resale_listings[l].event_id = eventId}

\* the active listings fetchResaleListings returns for a seller
ActiveListings(eventId, seller) ==
  {l \in DOMAIN resale_listings :
     /\ resale_listings[l] # NoRow
     /\ ~resale_listings[l].is_sold
     /\ resale_listings[l].event_id = eventId
     /\ resale_listings[l].seller_email = seller}

\* isTicketOnResale over the page's resaleListings state, which stays empty
\* when fetchResaleListings got an error
isTicketOnResale(eventId, seller, fetchedOk) ==
  fetchedOk /\ ActiveListings(eventId, seller) # {}

OfferIdle == [pc |-> "idle", ticket |-> NullId, event |-> "none", address |-> NoWallet]

OfferEnd(p, pc, msg) ==
  /\ offer' = [offer EXCEPT ![p] = [OfferIdle EXCEPT !.pc = pc]]
  /\ alertMsg' = msg

\* page p rendered ticket i with one of the two resale buttons
OfferView(p, i, fetchedOk) ==
  /\ offer[p].pc = "idle"
  /\ tickets[i] # NoRow
  /\ tickets[i].user_email = OfferUser(p)
  /\ canResale(i)
  /\ offer' = [offer EXCEPT ![p] =
       [pc |-> IF isTicketOnResale(tickets[i].event_id, OfferUser(p), fetchedOk)
               THEN "cancelResale" ELSE "resale",
        ticket |-> i,
        event |-> tickets[i].event_id,
        address |-> tickets[i].owner_address]]
  /\ UNCHANGED <<now, events, tickets, user_profiles, alertMsg, mintSide, viewSide, orgSide,
                 resale_listings, chainResales, purchase, buy>>

\* handleResale: click and auth.getUser()
HandleResale(p, loggedIn) ==
  /\ offer[p].pc = "resale"
  /\ IF loggedIn
     THEN /\ offer' = [offer EXCEPT ![p].pc = "insert"]
          /\ UNCHANGED alertMsg
     ELSE OfferEnd(p, "failed", alertMsg)
  /\ UNCHANGED <<now, events, tickets, user_profiles, mintSide, viewSide, orgSide,
                 resale_listings, chainResales, purchase, buy>>

\* handleResale: insert into resale_listings
ResaleInsert(p, ok) ==
  /\ offer[p].pc = "insert"
  /\ IF ok
     THEN /\ resale_listings' = [resale_listings EXCEPT ![OfferListingId(p)] =
               [event_id |-> offer[p].event,
                seller_email |-> OfferUser(p),
                seller_address |-> offer[p].address,
                is_sold |-> FALSE,
                ticket_id |-> NullId]]
          /\ OfferEnd(p, "done", "listed")
     ELSE /\ UNCHANGED resale_listings
          /\ OfferEnd(p, "failed", "listfail")
  /\ UNCHANGED <<now, events, tickets, user_profiles, mintSide, viewSide, orgSide,
                 chainResales, purchase, buy>>

\* handleCancelResale: click and auth.getUser()
HandleCancelResale(p, loggedIn) ==
  /\ offer[p].pc = "cancelResale"
  /\ IF loggedIn
     THEN /\ offer' = [offer EXCEPT ![p].pc = "delete"]
          /\ UNCHANGED alertMsg
     ELSE OfferEnd(p, "failed", alertMsg)
  /\ UNCHANGED <<now, events, tickets, user_profiles, mintSide, viewSide, orgSide,
                 resale_listings, chainResales, purchase, buy>>

\* handleCancelResale: delete where event_id, seller_email, is_sold = false
CancelResaleDelete(p, ok) ==
  /\ offer[p].pc = "delete"
  /\ IF ok
     THEN /\ resale_listings' = [l \in DOMAIN resale_listings |->
               IF l \in ActiveListings(offer[p].event, OfferUser(p))
               THEN NoRow ELSE resale_listings[l]]
          /\ OfferEnd(p, "done", "unlisted")
     ELSE /\ UNCHANGED resale_listings
          /\ OfferEnd(p, "failed", "unlistfail")
  /\ UNCHANGED <<now, events, tickets, user_profiles, mintSide, viewSide, orgSide,
                 chainResales, purchase, buy>>

(* fetchTickets, run when a My Tickets page is loaded.  The current page   *)
(* (Mytickets.jsx) works on user_profiles and guards the penalty with      *)
(* reputation_decreased; the older page works on profiles and has no       *)
(* guard.  The callbacks of Promise.all(data.map(...)) run interleaved.    *)
(***************************************************************************)
FetchUser(f) == IF f <= 2 THEN "u1" ELSE "u2"

\* Math.max(a, b)
MathMax(a, b) == IF a >= b THEN a ELSE b

UnflooredReputation(reputation, penalty) == reputation - penalty

\* Math.max(0, reputation - penalty)
PenalisedReputation(reputation, penalty) == MathMax(0, reputation - penalty)

\* isEventPassed && !ticket.attended && !ticket.events?.is_cancelled
isMissed(i) ==
  /\ events[tickets[i].event_id].date < now
  /\ ~tickets[i].attended
  /\ ~events[tickets[i].event_id].is_cancelled

\* the older page's test of a row, without the reputation_decreased flag
PenalisesMissed(version, i) == isMissed(i)

\* the callback of a row goes to the store for it
Penalises(version, i) ==
  IF version = "current" THEN isMissed(i) /\ ~tickets[i].reputation_decreased
  ELSE isMissed(i)

\* the callback of one ticket row: where it is, and the reputation it read
NoCallback == [pc |-> "return", reputation |-> 0]

FetchIdle == [pc |-> "idle", version |-> "current", rows |-> [i \in SeedIds |-> NoCallback]]

FetchEnded == [FetchIdle EXCEPT !.pc = "done"]

\* callback i of flow f moves to state c; the flow returns with its last callback
FetchStep(f, i, c) ==
  LET rows == [fetch[f].rows EXCEPT ![i] = c] IN
    fetch' = [fetch EXCEPT ![f] =
                IF \A j \in SeedIds : rows[j].pc = "return"
                  THEN FetchEnded
                  ELSE [fetch[f] EXCEPT !.rows = rows]]

\* the page is loaded: auth.getUser()
FetchTickets(f, version, loggedIn) ==
  /\ fetch[f].pc = "idle"
  /\ fetch' = [fetch EXCEPT ![f] =
                 IF loggedIn THEN [FetchIdle EXCEPT !.pc = "select", !.version = version]
                 ELSE FetchEnded]
  /\ UNCHANGED <<now, store, alertMsg, mintSide, viewSide, resaleSide, profiles, cancel, mark,
                 penalties, cancelPenalties, markCalls, marksDone, markOverlap>>

\* select the user's ticket rows with their events; the map starts a callback
\* per row, which returns at once for a row that is not to be penalised
FetchSelect(f, ok) ==
  /\ fetch[f].pc = "select"
  /\ LET rows == [i \in SeedIds |->
                    IF /\ tickets[i] # NoRow
                       /\ tickets[i].user_email = FetchUser(f)
                       /\ Penalises(fetch[f].version, i)
                      THEN [pc |-> "select", reputation |-> 0]
                      ELSE NoCallback]
     IN fetch' = [fetch EXCEPT ![f] =
                    IF ok /\ \E i \in SeedIds : rows[i].pc # "return"
                      THEN [fetch[f] EXCEPT !.pc = "map", !.rows = rows]
                      ELSE FetchEnded]
  /\ UNCHANGED <<now, store, alertMsg, mintSide, viewSide, resaleSide, profiles, cancel, mark,
                 penalties, cancelPenalties, markCalls, marksDone, markOverlap>>

\* the reputation table a version of the page works on
ReputationOf(version, u) ==
  IF version = "current" THEN user_profiles[u].reputation ELSE profiles[u].reputation

\* select reputation ... .single(); without userData nothing is written
FetchSelectReputation(f, i, ok) ==
  /\ fetch[f].pc = "map"
  /\ fetch[f].rows[i].pc = "select"
  /\ FetchStep(f, i, IF ok THEN [pc |-> "updateReputation",
                                 reputation |-> ReputationOf(fetch[f].version, FetchUser(f))]
                     ELSE NoCallback)
  /\ UNCHANGED <<now, store, alertMsg, mintSide, viewSide, resaleSide, profiles, cancel, mark,
                 penalties, cancelPenalties, markCalls, marksDone, markOverlap>>

\* update reputation: Math.max(0, userData.reputation - 2); errors are not
\* looked at
FetchUpdateReputation(f, i, ok) ==
  /\ fetch[f].pc = "map"
  /\ fetch[f].rows[i].pc = "updateReputation"
  /\ LET r == PenalisedReputation(fetch[f].rows[i].reputation, MissedPenalty) IN
       IF ok /\ fetch[f].version = "current"
         THEN /\ user_profiles' = [user_profiles EXCEPT ![FetchUser(f)].reputation = r]
              /\ UNCHANGED profiles
       ELSE IF ok
         THEN /\ profiles' = [profiles EXCEPT ![FetchUser(f)].reputation = r]
              /\ UNCHANGED user_profiles
       ELSE UNCHANGED <<user_profiles, profiles>>
  \* history: the write lowers the reputation on account of ticket i
  /\ penalties' =
       IF ok /\ PenalisedReputation(fetch[f].rows[i].reputation, MissedPenalty)
                  < ReputationOf(fetch[f].version, FetchUser(f))
         THEN [penalties EXCEPT ![i] = @ + 1]
         ELSE penalties
  /\ FetchStep(f, i, [pc |-> "updateTicket", reputation |-> 0])
  /\ UNCHANGED <<now, events, tickets, alertMsg, mintSide, viewRest, resaleSide, cancel, mark,
                 cancelPenalties, markCalls, marksDone, markOverlap>>
  /\ Publish(FetchUser(f), ok /\ fetch[f].version = "current")

\* update the ticket row by id: the current page sets reputation_decreased,
\* the older page sets attended to false
FetchUpdateTicket(f, i, ok) ==
  /\ fetch[f].pc = "map"
  /\ fetch[f].rows[i].pc = "updateTicket"
  /\ tickets' = IF ~ok \/ tickets[i] = NoRow THEN tickets
                ELSE IF fetch[f].version = "current"
                  THEN [tickets EXCEPT ![i].reputation_decreased = TRUE]
                ELSE [tickets EXCEPT ![i].attended = FALSE]
  /\ FetchStep(f, i, NoCallback)
  /\ UNCHANGED <<now, events, user_profiles, alertMsg, mintSide, viewSide, resaleSide, profiles,
                 cancel, mark, penalties, cancelPenalties, markCalls, marksDone, markOverlap>>

(***************************************************************************)
(* The My Events page of an organizer: handleCancelEvent and the two       *)
(* versions of handleMarkAttendance.  Both are invoked from the buttons    *)
(* that the page drew from the rows fetchMyEvents read.                    *)
(***************************************************************************)
\* the organizer's session: fetchMyEvents lists the events of the user
OrganizerSession(e) == events[e].organizer_email

\* a column of a selected row, read as (row.column || 0): a column that was
\* not selected is undefined
ColumnOrZero(row, column) == IF column \in DOMAIN row THEN row[column] ELSE 0

\* isUpcoming of fetchMyEvents: !isPastEvent && !event.is_cancelled
isUpcoming(e) == ~(events[e].date < now) /\ ~events[e].is_cancelled

\* fetched: the rows the select returned; todo: those the loop has yet to visit
CancelIdle ==
  [pc |-> "idle", event |-> "e1", fetched |-> {}, todo |-> {}, reputation |-> 0]

CancelActive(c) == cancel[c].pc \notin {"idle", "shown", "done", "failed", "dismissed"}

NeverHappened(eventDate, t) == FALSE

\* eventDate < now: "Event already happened"
AlreadyHappened(eventDate, t) == eventDate < t

CancelEnd(c, how, msg) ==
  /\ cancel' = [cancel EXCEPT ![c] = [CancelIdle EXCEPT !.pc = how]]
  /\ alertMsg' = msg

CancelGoto(c, r) ==
  /\ cancel' = [cancel EXCEPT ![c] = r]
  /\ UNCHANGED alertMsg

\* the page is loaded and shows the Cancel Event button of event e
CancelView(c, e) ==
  /\ cancel[c].pc = "idle"
  /\ isUpcoming(e)
  /\ CancelGoto(c, [cancel[c] EXCEPT !.pc = "shown", !.event = e])
  /\ UNCHANGED <<now, store, mintSide, viewSide, resaleSide, profiles, fetch, mark,
                 penalties, cancelPenalties, markCalls, marksDone, markOverlap>>

\* click on Cancel Event: the confirm dialog and the date check
HandleCancelEvent(c, confirmed) ==
  /\ cancel[c].pc = "shown"
  /\ IF ~confirmed THEN CancelEnd(c, "dismissed", alertMsg)
     ELSE IF AlreadyHappened(events[cancel[c].event].date, now)
       THEN CancelEnd(c, "failed", "happened")
     ELSE CancelGoto(c, [cancel[c] EXCEPT !.pc = "cancel"])
  /\ UNCHANGED <<now, store, mintSide, viewSide, resaleSide, profiles, fetch, mark,
                 penalties, cancelPenalties, markCalls, marksDone, markOverlap>>

\* update events set is_cancelled = true
CancelUpdateEvent(c, ok) ==
  /\ cancel[c].pc = "cancel"
  /\ IF ok
       THEN /\ events' = [events EXCEPT ![cancel[c].event].is_cancelled = TRUE]
            /\ CancelGoto(c, [cancel[c] EXCEPT !.pc = "selectTickets"])
       ELSE /\ UNCHANGED events
            /\ CancelEnd(c, "failed", "cancel")
  /\ UNCHANGED <<now, tickets, user_profiles, mintSide, viewSide, resaleSide, profiles, fetch, mark,
                 penalties, cancelPenalties, markCalls, marksDone, markOverlap>>

\* select the tickets of the event that are not refunded
CancelSelectTickets(c, ok) ==
  /\ cancel[c].pc = "selectTickets"
  /\ LET todo == {i \in DOMAIN tickets :
                    /\ tickets[i].event_id = cancel[c].event
                    /\ ~tickets[i].refunded}
     IN IF ok
          THEN CancelGoto(c, [cancel[c] EXCEPT
                                !.pc = IF todo = {} THEN "selectProfile" ELSE "refund",
                                !.fetched = todo, !.todo = todo])
          ELSE CancelEnd(c, "failed", "tickets")
  /\ UNCHANGED <<now, store, mintSide, viewSide, resaleSide, profiles, fetch, mark,
                 penalties, cancelPenalties, markCalls, marksDone, markOverlap>>

\* one turn of the loop: update tickets set refunded = true where id; the
\* result is not looked at
CancelRefund(c, ok) ==
  /\ cancel[c].pc = "refund"
  /\ LET i == CHOOSE j \in cancel[c].todo : \A k \in cancel[c].todo : j <= k
         todo == cancel[c].todo \ {i}
     IN /\ tickets' = IF ok /\ tickets[i] # NoRow
                        THEN [tickets EXCEPT ![i].refunded = TRUE]
                        ELSE tickets
        /\ CancelGoto(c, [cancel[c] EXCEPT
                            !.pc = IF todo = {} THEN "selectProfile" ELSE "refund",
                            !.todo = todo])
  /\ UNCHANGED <<now, events, user_profiles, mintSide, viewSide, resaleSide, profiles, fetch, mark,
                 penalties, cancelPenalties, markCalls, marksDone, markOverlap>>

\* select the organizer's reputation; without it the penalty is left out
CancelSelectProfile(c, ok) ==
  /\ cancel[c].pc = "selectProfile"
  /\ IF ok
       THEN CancelGoto(c, [cancel[c] EXCEPT
              !.pc = "updateProfile",
              !.reputation = user_profiles[events[cancel[c].event].organizer_email].reputation])
       ELSE CancelEnd(c, "done", "cancelled")
  /\ UNCHANGED <<now, store, mintSide, viewSide, resaleSide, profiles, fetch, mark,
                 penalties, cancelPenalties, markCalls, marksDone, markOverlap>>

\* update reputation: Math.max(0, (reputation || 0) - 5); the result is not
\* looked at
CancelUpdateProfile(c, ok) ==
  /\ cancel[c].pc = "updateProfile"
  /\ user_profiles' =
       IF ok
         THEN [user_profiles EXCEPT ![events[cancel[c].event].organizer_email].reputation =
                 PenalisedReputation(cancel[c].reputation, CancelPenalty)]
         ELSE user_profiles
  /\ cancelPenalties' = IF ok THEN [cancelPenalties EXCEPT ![cancel[c].event] = @ + 1]
                        ELSE cancelPenalties
  /\ CancelEnd(c, "done", "cancelled")
  /\ UNCHANGED <<now, events, tickets, mintSide, viewRest, resaleSide, profiles, fetch, mark,
                 penalties, markCalls, marksDone, markOverlap>>
  /\ Publish(events[cancel[c].event].organizer_email, ok)

MarkIdle ==
  [pc |-> "idle", version |-> "A", event |-> "e1", attendee |-> "u1", profile |-> NoRow]

MarkActive(m) == mark[m].pc \notin {"idle", "shown", "done", "failed"}

MarkEnd(m, how, msg) ==
  /\ mark' = [mark EXCEPT ![m] = [MarkIdle EXCEPT !.pc = how]]
  /\ alertMsg' = msg

MarkGoto(m, r) ==
  /\ mark' = [mark EXCEPT ![m] = r]
  /\ UNCHANGED alertMsg

\* the page is loaded and shows Mark as Attended for the holder of ticket i:
\* an attendee is a ticket that is not refunded, the button stands in for the
\* badge while attended is false; version B disables it unless isUpcoming
MarkView(m, version, i) ==
  /\ mark[m].pc = "idle"
  /\ tickets[i] # NoRow
  /\ ~tickets[i].refunded
  /\ ~tickets[i].attended
  /\ version = "B" => isUpcoming(tickets[i].event_id)
  /\ MarkGoto(m, [MarkIdle EXCEPT !.pc = "shown", !.version = version,
                                  !.event = tickets[i].event_id,
                                  !.attendee = tickets[i].user_email])
  /\ UNCHANGED <<now, store, mintSide, viewSide, resaleSide, profiles, fetch, cancel,
                 penalties, cancelPenalties, markCalls, marksDone, markOverlap>>

\* click on Mark as Attended: handleMarkAttendance(eventId, userEmail)
HandleMarkAttendance(m) ==
  /\ mark[m].pc = "shown"
  /\ MarkGoto(m, [mark[m] EXCEPT !.pc = "updateTickets"])
  /\ markCalls' = [markCalls EXCEPT ![mark[m].version][mark[m].attendee] = @ + 1]
  /\ markOverlap' = (markOverlap \/ \E n \in MarkFlows \ {m} : MarkActive(n))
  /\ UNCHANGED <<now, store, mintSide, viewSide, resaleSide, profiles, fetch, cancel,
                 penalties, cancelPenalties, marksDone>>

\* update tickets set attended = true where event_id and user_email
MarkUpdateTickets(m, ok) ==
  /\ mark[m].pc = "updateTickets"
  /\ IF ok
       THEN /\ tickets' =
                 [i \in DOMAIN tickets |->
                    IF /\ tickets[i].event_id = mark[m].event
                       /\ tickets[i].user_email = mark[m].attendee
                      THEN [tickets[i] EXCEPT !.attended = TRUE]
                      ELSE tickets[i]]
            /\ MarkGoto(m, [mark[m] EXCEPT !.pc = "selectProfile"])
       ELSE /\ UNCHANGED tickets
            /\ MarkEnd(m, "failed", "attendance")
  /\ UNCHANGED <<now, events, user_profiles, mintSide, viewSide, resaleSide, profiles, fetch, cancel,
                 penalties, cancelPenalties, markCalls, marksDone, markOverlap>>

\* the columns a version selects from the attendee's profile
SelectedProfile(version, u) ==
  IF version = "A"
    THEN [total_events_attended |-> user_profiles[u].total_events_attended]
    ELSE [total_events_attended |-> user_profiles[u].total_events_attended,
          reputation |-> user_profiles[u].reputation]

\* select ... .single(); without the profile the reward is left out
MarkSelectProfile(m, ok) ==
  /\ mark[m].pc = "selectProfile"
  /\ IF ok
       THEN MarkGoto(m, [mark[m] EXCEPT
              !.pc = IF mark[m].version = "A" THEN "updateAttended" ELSE "updateProfile",
              !.profile = SelectedProfile(mark[m].version, mark[m].attendee)])
       ELSE MarkEnd(m, "done", "marked")
  /\ UNCHANGED <<now, store, mintSide, viewSide, resaleSide, profiles, fetch, cancel,
                 penalties, cancelPenalties, markCalls, marksDone, markOverlap>>

\* version A, first update: total_events_attended
MarkUpdateAttended(m, ok) ==
  /\ mark[m].pc = "updateAttended"
  /\ IF ok
       THEN /\ user_profiles' = [user_profiles EXCEPT
                 ![mark[m].attendee].total_events_attended =
                    ColumnOrZero(mark[m].profile, "total_events_attended") + 1]
            /\ MarkGoto(m, [mark[m] EXCEPT !.pc = "updateProfile"])
       ELSE /\ UNCHANGED user_profiles
            /\ MarkEnd(m, "failed", "profile")
  /\ UNCHANGED <<now, events, tickets, mintSide, viewRest, resaleSide, profiles, fetch, cancel,
                 penalties, cancelPenalties, markCalls, marksDone, markOverlap>>
  /\ Publish(mark[m].attendee, ok)

UnreadReward(profile) == AttendanceReward

\* (userProfile.reputation || 0) + 5
RewardedReputation(profile) == ColumnOrZero(profile, "reputation") + AttendanceReward

\* the update of the reputation: alone in version A, together with
\* total_events_attended in version B
MarkUpdateProfile(m, ok) ==
  /\ mark[m].pc = "updateProfile"
  /\ IF ok
       THEN /\ user_profiles' =
                 IF mark[m].version = "A"
                   THEN [user_profiles EXCEPT
                           ![mark[m].attendee].reputation = RewardedReputation(mark[m].profile)]
                   ELSE [user_profiles EXCEPT
                           ![mark[m].attendee].reputation = RewardedReputation(mark[m].profile),
                           ![mark[m].attendee].total_events_attended =
                              ColumnOrZero(mark[m].profile, "total_events_attended") + 1]
            /\ marksDone' = [marksDone EXCEPT ![mark[m].version][mark[m].attendee] = @ + 1]
            /\ MarkEnd(m, "done", "marked")
       ELSE /\ UNCHANGED <<user_profiles, marksDone>>
            /\ MarkEnd(m, "failed", "profile")
  /\ UNCHANGED <<now, events, tickets, mintSide, viewRest, resaleSide, profiles, fetch, cancel,
                 penalties, cancelPenalties, markCalls, markOverlap>>
  /\ Publish(mark[m].attendee, ok)

\* time passes
Tick ==
  /\ now < MaxTime
  /\ now' = now + 1
  /\ UNCHANGED <<store, alertMsg, mintSide, viewSide, resaleSide, orgSide>>

(***************************************************************************)
(* The mint specification: NMint buyers' sessions on two events.           *)
(***************************************************************************)
\* e1: organized by u1, whose wallet is on record; open to everyone; its date
\* passes during the run.  e2: organized by u1 too, no wallet on record; asks
\* for reputation 5; its date does not pass.
InitEvents(max1, date1) ==
  [e \in EventIds |->
     IF e = "e1"
       THEN [date |-> date1, max_ticket |-> max1, ticket_sold |-> 0,
             is_cancelled |-> FALSE, reputation_req |-> 0,
             organizer_email |-> "u1", organizer_wallet |-> "0xA1"]
       ELSE [date |-> MaxTime + 1, max_ticket |-> 1, ticket_sold |-> 0,
             is_cancelled |-> FALSE, reputation_req |-> 5,
             organizer_email |-> "u1", organizer_wallet |-> Undefined]]

InitProfiles ==
  [u \in Users |->
     [reputation |-> IF u = "u2" THEN 1 ELSE 10,
      total_tickets_minted |-> 0, total_events_attended |-> 0]]

\* no mint flow is running
NoMint ==
  /\ chainMints = [e \in EventIds |-> 0]
  /\ mint = [f \in MintFlows |-> MintIdle]
  /\ minted = [e \in EventIds |-> 0]
  /\ overlap = [e \in EventIds |-> FALSE]

(***************************************************************************)
(* Realtime subscriptions.  The Profile view subscribes at the end of the  *)
(* asynchronous initialize() its effect starts; the Dashboard view         *)
(* subscribes inside its effect.  The cleanup of the effect runs when the  *)
(* view unmounts.                                                          *)
(***************************************************************************)
\* number of fetchProfile calls of one view's realtime callback in flight
RefetchSlots == 1..NRefetch

\* localStorage.getItem returns null for a missing item
NoCache == <<>>

\* an item that is not the JSON text of a profile
Corrupt == <<0>>

\* JSON.stringify(data) of a profile row: the text lists the columns
JSONstringify(row) ==
  <<row.reputation, row.total_tickets_minted, row.total_events_attended>>

\* JSON.parse throws on a text that is not JSON
ParseFails(text) == Len(text) # 3

JSONparse(text) ==
  [reputation |-> text[1], total_tickets_minted |-> text[2],
   total_events_attended |-> text[3]]

\* profile: null
NullProfile == [id |-> "null"]

\* useState({ loading: true, error: null, profile: null })
InitialState == [loading |-> TRUE, error |-> FALSE, profile |-> NullProfile]

\* setState({ loading: false, error: null, profile: data })
Shown(data) == [loading |-> FALSE, error |-> FALSE, profile |-> data]

KeepsProfile(state) == [state EXCEPT !.loading = FALSE, !.error = TRUE]

\* setState({ loading: false, error: error.message, profile: null })
FetchFailed(state) == [loading |-> FALSE, error |-> TRUE, profile |-> NullProfile]

\* a state update of a view that is no longer mounted is dropped
SetState(v, state) ==
  profileState' = IF profilePage[v].mounted
                    THEN [profileState EXCEPT ![v] = state]
                    ELSE profileState

\* the effect's locals (mounted, channel), the position of initialize() and
\* whether handleLogout is waiting for signOut
ProfileIdle == [pc |-> "idle", mounted |-> FALSE, channel |-> FALSE, signingOut |-> FALSE]

NoRefetch == [pc |-> "free", data |-> NullProfile]

\* initialize() of view v is at an await
Initialising(v) ==
  profilePage[v].pc \in {"getUser", "select", "setupGetUser", "subscribe"}

\* the view unmounted
ProfileUnmounted(v) == profilePage[v].pc # "idle" /\ ~profilePage[v].mounted

\* useEffect: mounted = true, channel = null; initialize() shows the cached
\* profile, or removes a cached item that does not parse, and runs to the
\* first await of fetchProfile
ProfileMount(v) ==
  /\ profilePage[v].pc = "idle"
  /\ profilePage' = [profilePage EXCEPT ![v] = [ProfileIdle EXCEPT !.pc = "getUser", !.mounted = TRUE]]
  /\ IF cachedProfile = NoCache
       THEN UNCHANGED <<cachedProfile, profileState>>
     ELSE IF ParseFails(cachedProfile)
       THEN /\ cachedProfile' = NoCache
            /\ UNCHANGED profileState
     ELSE /\ profileState' = [profileState EXCEPT ![v] =
                 [@ EXCEPT !.loading = FALSE, !.profile = JSONparse(cachedProfile)]]
          /\ UNCHANGED cachedProfile
  /\ UNCHANGED <<now, store, alertMsg, mintSide, resaleSide, orgSide, dashboardPage,
                 channels, refetch, notices>>

\* fetchProfile: auth.getUser(); without a user it throws: the catch sets the
\* error state and initialize() ends in its own catch
FetchProfileGetUser(v, ok) ==
  /\ profilePage[v].pc = "getUser"
  /\ profilePage' = [profilePage EXCEPT ![v].pc = IF ok THEN "select" ELSE "initialised"]
  /\ IF ok THEN UNCHANGED profileState
     ELSE SetState(v, FetchFailed(profileState[v]))
  /\ UNCHANGED <<now, store, alertMsg, mintSide, resaleSide, orgSide, dashboardPage,
                 channels, cachedProfile, refetch, notices>>

\* fetchProfile: select the profile row, setState and localStorage.setItem;
\* an error sets the error state and is thrown on
FetchProfileSelect(v, ok) ==
  /\ profilePage[v].pc = "select"
  /\ profilePage' = [profilePage EXCEPT ![v].pc = IF ok THEN "setupGetUser" ELSE "initialised"]
  /\ IF ok
       THEN /\ SetState(v, Shown(user_profiles[ProfileUser(v)]))
            /\ cachedProfile' = JSONstringify(user_profiles[ProfileUser(v)])
       ELSE /\ SetState(v, FetchFailed(profileState[v]))
            /\ UNCHANGED cachedProfile
  /\ UNCHANGED <<now, store, alertMsg, mintSide, resaleSide, orgSide, dashboardPage,
                 channels, refetch, notices>>

\* setupRealtime: auth.getUser(); without a user it returns null
SetupRealtimeGetUser(v, loggedIn) ==
  /\ profilePage[v].pc = "setupGetUser"
  /\ profilePage' = [profilePage EXCEPT ![v].pc = IF loggedIn THEN "subscribe" ELSE "initialised"]
  /\ UNCHANGED <<now, store, alertMsg, mintSide, resaleSide, orgSide, dashboardPage,
                 channels, cachedProfile, profileState, refetch, notices>>

\* setupRealtime: channel.subscribe() and channel = await setupRealtime();
\* with an error the function returns null and no channel is held
SetupRealtimeSubscribe(v, ok) ==
  /\ profilePage[v].pc = "subscribe"
  /\ profilePage' = [profilePage EXCEPT ![v].pc = "initialised", ![v].channel = ok]
  /\ channels' = IF ok THEN channels \cup {ProfileChannel(v)} ELSE channels
  /\ UNCHANGED <<now, store, alertMsg, mintSide, resaleSide, orgSide, dashboardPage,
                 cachedProfile, profileState, refetch, notices>>

\* the cleanup of the effect: mounted = false; if (channel) removeChannel(channel);
\* a removed channel delivers nothing more
ProfileUnmount(v) ==
  /\ profilePage[v].mounted
  /\ profilePage' = [profilePage EXCEPT ![v].mounted = FALSE]
  /\ channels' = IF profilePage[v].channel
                   THEN channels \ {ProfileChannel(v)} ELSE channels
  /\ notices' = IF profilePage[v].channel
                  THEN [notices EXCEPT ![v] = 0] ELSE notices
  /\ UNCHANGED <<now, store, alertMsg, mintSide, resaleSide, orgSide, dashboardPage,
                 cachedProfile, profileState, refetch>>

\* a change notification reaches the channel: the callback calls
\* fetchProfile(), which runs to its first await
RealtimeChange(v, k) ==
  /\ notices[v] > 0
  /\ refetch[v][k].pc = "free"
  /\ notices' = [notices EXCEPT ![v] = @ - 1]
  /\ refetch' = [refetch EXCEPT ![v][k].pc = "getUser"]
  /\ UNCHANGED <<now, store, alertMsg, mintSide, resaleSide, orgSide, dashboardPage,
                 profilePage, channels, cachedProfile, profileState>>

\* fetchProfile of the callback: auth.getUser()
RefetchGetUser(v, k, ok) ==
  /\ refetch[v][k].pc = "getUser"
  /\ IF ok
       THEN /\ refetch' = [refetch EXCEPT ![v][k].pc = "select"]
            /\ UNCHANGED profileState
       ELSE /\ refetch' = [refetch EXCEPT ![v][k] = NoRefetch]
            /\ SetState(v, FetchFailed(profileState[v]))
  /\ UNCHANGED <<now, store, alertMsg, mintSide, resaleSide, orgSide, dashboardPage,
                 profilePage, channels, cachedProfile, notices>>

\* fetchProfile of the callback: the store executes the select
RefetchSelect(v, k) ==
  /\ refetch[v][k].pc = "select"
  /\ refetch' = [refetch EXCEPT ![v][k] =
                   [pc |-> "response", data |-> user_profiles[ProfileUser(v)]]]
  /\ UNCHANGED <<now, store, alertMsg, mintSide, resaleSide, orgSide, dashboardPage,
                 profilePage, channels, cachedProfile, profileState, notices>>

\* fetchProfile of the callback: the answer of the select arrives: setState
\* and localStorage.setItem, or the error state
RefetchResponse(v, k, ok) ==
  /\ refetch[v][k].pc = "response"
  /\ refetch' = [refetch EXCEPT ![v][k] = NoRefetch]
  /\ IF ok
       THEN /\ SetState(v, Shown(refetch[v][k].data))
            /\ cachedProfile' = JSONstringify(refetch[v][k].data)
       ELSE /\ SetState(v, FetchFailed(profileState[v]))
            /\ UNCHANGED cachedProfile
  /\ UNCHANGED <<now, store, alertMsg, mintSide, resaleSide, orgSide, dashboardPage,
                 profilePage, channels, notices>>

\* handleLogout: the button of a shown profile; auth.signOut() is awaited
HandleLogout(v) ==
  /\ profilePage[v].mounted
  /\ ~profilePage[v].signingOut
  /\ ~profileState[v].loading
  /\ ~profileState[v].error
  /\ profileState[v].profile # NullProfile
  /\ profilePage' = [profilePage EXCEPT ![v].signingOut = TRUE]
  /\ UNCHANGED <<now, store, alertMsg, mintSide, resaleSide, orgSide, dashboardPage,
                 channels, cachedProfile, profileState, refetch, notices>>

\* handleLogout after signOut: localStorage.removeItem, navigate('/') and
\* window.location.reload(): the page with its pending calls and its
\* realtime client is gone
LogoutReload(v) ==
  /\ profilePage[v].signingOut
  /\ cachedProfile' = NoCache
  /\ profilePage' = [profilePage EXCEPT ![v] = [ProfileIdle EXCEPT !.pc = "reloaded"]]
  /\ profileState' = [profileState EXCEPT ![v] = InitialState]
  /\ refetch' = [refetch EXCEPT ![v] = [k \in RefetchSlots |-> NoRefetch]]
  /\ channels' = channels \ {ProfileChannel(v)}
  /\ notices' = [notices EXCEPT ![v] = 0]
  /\ UNCHANGED <<now, store, alertMsg, mintSide, resaleSide, orgSide, dashboardPage>>

\* Dashboard useEffect: the fetches are started and the channel is created and
\* subscribed before the effect returns
DashboardMount(d) ==
  /\ dashboardPage[d] = "idle"
  /\ dashboardPage' = [dashboardPage EXCEPT ![d] = "mounted"]
  /\ channels' = channels \cup {EventsChannel(d)}
  /\ UNCHANGED <<now, store, alertMsg, mintSide, resaleSide, orgSide, profilePage,
                 cachedProfile, profileState, refetch, notices>>

\* the cleanup of the Dashboard effect: removeChannel(subscription)
DashboardUnmount(d) ==
  /\ dashboardPage[d] = "mounted"
  /\ dashboardPage' = [dashboardPage EXCEPT ![d] = "unmounted"]
  /\ channels' = channels \ {EventsChannel(d)}
  /\ UNCHANGED <<now, store, alertMsg, mintSide, resaleSide, orgSide, profilePage,
                 cachedProfile, profileState, refetch, notices>>

\* no Profile or Dashboard view is mounted
NoViews ==
  /\ profilePage = [v \in ProfileViews |-> ProfileIdle]
  /\ dashboardPage = [d \in DashboardViews |-> "idle"]
  /\ channels = {}
  /\ cachedProfile = NoCache
  /\ profileState = [v \in ProfileViews |-> InitialState]
  /\ refetch = [v \in ProfileViews |-> [k \in RefetchSlots |-> NoRefetch]]
  /\ notices = [v \in ProfileViews |-> 0]

\* no resale listing, no resale purchase
NoResale ==
  /\ resale_listings = [l \in ListingIds |-> NoRow]
  /\ chainResales = 0
  /\ purchase = [f \in PurchaseFlows |-> PurchaseIdle]
  /\ buy = [g \in BuyFlows |-> BuyIdle]
  /\ offer = [p \in OfferFlows |-> OfferIdle]

\* nobody is on a My Tickets or My Events page
NoOrg ==
  /\ profiles = [u \in Users |-> [reputation |-> InitProfiles[u].reputation]]
  /\ fetch = [f \in FetchFlows |-> FetchIdle]
  /\ cancel = [c \in CancelFlows |-> CancelIdle]
  /\ mark = [m \in MarkFlows |-> MarkIdle]
  /\ penalties = [i \in SeedIds |-> 0]
  /\ cancelPenalties = [e \in EventIds |-> 0]
  /\ markCalls = [v \in MarkVersions |-> [u \in Users |-> 0]]
  /\ marksDone = [v \in MarkVersions |-> [u \in Users |-> 0]]
  /\ markOverlap = FALSE

InitMint ==
  /\ now = 0
  /\ \E max1 \in 1..MaxTicket : events = InitEvents(max1, 0)
  /\ tickets = [i \in MintFlows |-> NoRow]
  /\ user_profiles = InitProfiles
  /\ alertMsg = ""
  /\ NoMint
  /\ NoResale
  /\ NoOrg
  /\ NoViews

NextMint ==
  \/ Tick
  \/ \E f \in MintFlows, e \in EventIds, w \in Wallets \cup {NoWallet}, eth \in BOOLEAN :
       HandleBuyClick(f, e, w, eth)
  \/ \E f \in MintFlows, ok \in BOOLEAN : MintGetUser(f, ok)
  \/ \E f \in MintFlows, ok \in BOOLEAN : MintFetchEvent(f, ok)
  \/ \E f \in MintFlows, ok \in BOOLEAN : MintFetchProfile(f, ok)
  \/ \E f \in MintFlows, ok \in BOOLEAN : MintCallChain(f, ok)
  \/ \E f \in MintFlows, ok \in BOOLEAN : MintWait(f, ok)
  \/ \E f \in MintFlows, ok \in BOOLEAN : MintInsert(f, ok)
  \/ \E f \in MintFlows, ok \in BOOLEAN : MintUpdateSold(f, ok)
  \/ \E f \in MintFlows, ok \in BOOLEAN : MintSelectMinted(f, ok)
  \/ \E f \in MintFlows, ok \in BOOLEAN : MintUpdateMinted(f, ok)

SpecMint == InitMint /\ [][NextMint]_vars

(***************************************************************************)
(* The resale specification: NSeed tickets, NListing of them listed.       *)
(***************************************************************************)
\* tickets of e1 held by u1; later ones tickets of e2 held by u2
SeedTicket(i) ==
  [event_id |-> IF i <= 2 THEN "e1" ELSE "e2",
   user_email |-> IF i <= 2 THEN "u1" ELSE "u2",
   owner_address |-> IF i <= 2 THEN "0xa1" ELSE "0xb2",
   token_id |-> i, attended |-> FALSE, refunded |-> FALSE,
   reputation_decreased |-> FALSE]

\* listing 1 offers ticket 1; a later listing offers the first ticket of e2
SeedListing(l) ==
  IF l = 1
    THEN [event_id |-> "e1", seller_email |-> "u1", seller_address |-> "0xa1",
          is_sold |-> FALSE, ticket_id |-> 1]
    ELSE [event_id |-> "e2", seller_email |-> "u2", seller_address |-> "0xb2",
          is_sold |-> FALSE, ticket_id |-> IF NSeed >= 3 THEN 3 ELSE NullId]

InitResale ==
  /\ now = 0
  /\ events = [InitEvents(1, 1) EXCEPT !["e1"].ticket_sold = 1]
  /\ tickets = [i \in SeedIds |-> SeedTicket(i)]
  /\ user_profiles = InitProfiles
  /\ alertMsg = ""
  /\ NoMint
  /\ resale_listings = [l \in ListingIds |-> SeedListing(l)]
  /\ chainResales = 0
  /\ purchase = [f \in PurchaseFlows |-> PurchaseIdle]
  /\ buy = [g \in BuyFlows |-> BuyIdle]
  /\ offer = [p \in OfferFlows |-> OfferIdle]
  /\ NoOrg
  /\ NoViews

NextResale ==
  \/ Tick
  \/ \E f \in PurchaseFlows, l \in ListingIds : FetchResaleTickets(f, l)
  \/ \E f \in PurchaseFlows : HandlePurchaseResale(f)
  \/ \E f \in PurchaseFlows, loggedIn \in BOOLEAN, confirmed \in BOOLEAN, eth \in BOOLEAN :
       PurchaseGetUser(f, loggedIn, confirmed, eth)
  \/ \E f \in PurchaseFlows, ok \in BOOLEAN : PurchaseConnect(f, ok)
  \/ \E f \in PurchaseFlows, ok \in BOOLEAN : PurchaseCallChain(f, ok)
  \/ \E f \in PurchaseFlows, ok \in BOOLEAN : PurchaseWait(f, ok)
  \/ \E f \in PurchaseFlows, ok \in BOOLEAN : PurchaseDelete(f, ok)
  \/ \E f \in PurchaseFlows, ok \in BOOLEAN : PurchaseUpdateTicket(f, ok)
  \/ \E g \in BuyFlows, l \in ListingIds, w \in Wallets \cup {NoWallet} : FetchListings(g, l, w)
  \/ \E g \in BuyFlows, eth \in BOOLEAN : HandleBuy(g, eth)
  \/ \E g \in BuyFlows, ok \in BOOLEAN : BuyGetSigner(g, ok)
  \/ \E g \in BuyFlows, ok \in BOOLEAN : BuyGetUser(g, ok)
  \/ \E g \in BuyFlows, ok \in BOOLEAN : BuyUpdateTicket(g, ok)
  \/ \E g \in BuyFlows, ok \in BOOLEAN : BuyMarkSold(g, ok)
  \/ \E g \in BuyFlows, ok \in BOOLEAN : BuyTransfer(g, ok)
  \/ \E g \in BuyFlows, ok \in BOOLEAN : BuyWait(g, ok)

SpecResale == InitResale /\ [][NextResale]_vars

(***************************************************************************)
(* The reputation specifications: the holder u1 of the NSeed tickets loads *)
(* My Tickets pages (SpecTickets), the organizer u2 marks attendance       *)
(* (SpecAttendance), and one page of each kind together with a             *)
(* cancellation (SpecReputation).  The date of e1 passes during the run.   *)
(***************************************************************************)
\* the holder u1 of the tickets has reputation 3 in user_profiles
OrgProfiles == [InitProfiles EXCEPT !["u1"].reputation = 3]

InitOrg ==
  /\ now = 0
  /\ events = [e \in EventIds |->
                 [InitEvents(NSeed, 0)[e] EXCEPT !.organizer_email = "u2",
                                                 !.ticket_sold = Cardinality({i \in SeedIds : SeedTicket(i).event_id = e})]]
  /\ tickets = [i \in SeedIds |-> SeedTicket(i)]
  /\ user_profiles = OrgProfiles
  /\ alertMsg = ""
  /\ NoMint
  /\ NoResale
  /\ NoOrg
  /\ NoViews

NextTickets ==
  \/ Tick
  \/ \E f \in FetchFlows, v \in FetchVersions, loggedIn \in BOOLEAN : FetchTickets(f, v, loggedIn)
  \/ \E f \in FetchFlows, ok \in BOOLEAN : FetchSelect(f, ok)
  \/ \E f \in FetchFlows, i \in SeedIds, ok \in BOOLEAN : FetchSelectReputation(f, i, ok)
  \/ \E f \in FetchFlows, i \in SeedIds, ok \in BOOLEAN : FetchUpdateReputation(f, i, ok)
  \/ \E f \in FetchFlows, i \in SeedIds, ok \in BOOLEAN : FetchUpdateTicket(f, i, ok)

SpecTickets == InitOrg /\ [][NextTickets]_vars

NextAttendance ==
  \/ Tick
  \/ \E m \in MarkFlows, v \in MarkVersions, i \in SeedIds : MarkView(m, v, i)
  \/ \E m \in MarkFlows : HandleMarkAttendance(m)
  \/ \E m \in MarkFlows, ok \in BOOLEAN : MarkUpdateTickets(m, ok)
  \/ \E m \in MarkFlows, ok \in BOOLEAN : MarkSelectProfile(m, ok)
  \/ \E m \in MarkFlows, ok \in BOOLEAN : MarkUpdateAttended(m, ok)
  \/ \E m \in MarkFlows, ok \in BOOLEAN : MarkUpdateProfile(m, ok)

SpecAttendance == InitOrg /\ [][NextAttendance]_vars

\* every handler that writes a reputation, one page of each kind
OnePage == {1}

NextReputation ==
  \/ Tick
  \/ \E f \in OnePage, v \in FetchVersions, loggedIn \in BOOLEAN : FetchTickets(f, v, loggedIn)
  \/ \E f \in OnePage, ok \in BOOLEAN : FetchSelect(f, ok)
  \/ \E f \in OnePage, i \in SeedIds, ok \in BOOLEAN : FetchSelectReputation(f, i, ok)
  \/ \E f \in OnePage, i \in SeedIds, ok \in BOOLEAN : FetchUpdateReputation(f, i, ok)
  \/ \E f \in OnePage, i \in SeedIds, ok \in BOOLEAN : FetchUpdateTicket(f, i, ok)
  \/ \E c \in OnePage, e \in EventIds : CancelView(c, e)
  \/ \E c \in OnePage, confirmed \in BOOLEAN : HandleCancelEvent(c, confirmed)
  \/ \E c \in OnePage, ok \in BOOLEAN : CancelUpdateEvent(c, ok)
  \/ \E c \in OnePage, ok \in BOOLEAN : CancelSelectTickets(c, ok)
  \/ \E c \in OnePage, ok \in BOOLEAN : CancelRefund(c, ok)
  \/ \E c \in OnePage, ok \in BOOLEAN : CancelSelectProfile(c, ok)
  \/ \E c \in OnePage, ok \in BOOLEAN : CancelUpdateProfile(c, ok)
  \/ \E m \in OnePage, v \in MarkVersions, i \in SeedIds : MarkView(m, v, i)
  \/ \E m \in OnePage : HandleMarkAttendance(m)
  \/ \E m \in OnePage, ok \in BOOLEAN : MarkUpdateTickets(m, ok)
  \/ \E m \in OnePage, ok \in BOOLEAN : MarkSelectProfile(m, ok)
  \/ \E m \in OnePage, ok \in BOOLEAN : MarkUpdateAttended(m, ok)
  \/ \E m \in OnePage, ok \in BOOLEAN : MarkUpdateProfile(m, ok)

SpecReputation == InitOrg /\ [][NextReputation]_vars

\* the organizer's My Events pages alone: cancellations while time passes
NextCancel ==
  \/ Tick
  \/ \E c \in CancelFlows, e \in EventIds : CancelView(c, e)
  \/ \E c \in CancelFlows, confirmed \in BOOLEAN : HandleCancelEvent(c, confirmed)
  \/ \E c \in CancelFlows, ok \in BOOLEAN : CancelUpdateEvent(c, ok)
  \/ \E c \in CancelFlows, ok \in BOOLEAN : CancelSelectTickets(c, ok)
  \/ \E c \in CancelFlows, ok \in BOOLEAN : CancelRefund(c, ok)
  \/ \E c \in CancelFlows, ok \in BOOLEAN : CancelSelectProfile(c, ok)
  \/ \E c \in CancelFlows, ok \in BOOLEAN : CancelUpdateProfile(c, ok)

SpecCancel == InitOrg /\ [][NextCancel]_vars

\* the handlers that write the events table: a cancellation by the organizer
\* u1 and one buyer's mint, on events that start without tickets
NextEvents ==
  \/ Tick
  \/ \E c \in OnePage, e \in EventIds : CancelView(c, e)
  \/ \E c \in OnePage, confirmed \in BOOLEAN : HandleCancelEvent(c, confirmed)
  \/ \E c \in OnePage, ok \in BOOLEAN : CancelUpdateEvent(c, ok)
  \/ \E c \in OnePage, ok \in BOOLEAN : CancelSelectTickets(c, ok)
  \/ \E c \in OnePage, ok \in BOOLEAN : CancelRefund(c, ok)
  \/ \E c \in OnePage, ok \in BOOLEAN : CancelSelectProfile(c, ok)
  \/ \E c \in OnePage, ok \in BOOLEAN : CancelUpdateProfile(c, ok)
  \/ \E f \in OnePage, e \in EventIds, w \in Wallets \cup {NoWallet}, eth \in BOOLEAN :
       HandleBuyClick(f, e, w, eth)
  \/ \E f \in OnePage, ok \in BOOLEAN : MintGetUser(f, ok)
  \/ \E f \in OnePage, ok \in BOOLEAN : MintFetchEvent(f, ok)
  \/ \E f \in OnePage, ok \in BOOLEAN : MintFetchProfile(f, ok)
  \/ \E f \in OnePage, ok \in BOOLEAN : MintCallChain(f, ok)
  \/ \E f \in OnePage, ok \in BOOLEAN : MintWait(f, ok)
  \/ \E f \in OnePage, ok \in BOOLEAN : MintInsert(f, ok)
  \/ \E f \in OnePage, ok \in BOOLEAN : MintUpdateSold(f, ok)
  \/ \E f \in OnePage, ok \in BOOLEAN : MintSelectMinted(f, ok)
  \/ \E f \in OnePage, ok \in BOOLEAN : MintUpdateMinted(f, ok)

SpecEvents == InitMint /\ [][NextEvents]_vars

(***************************************************************************)
(* Properties of the mint flow.                                            *)
(***************************************************************************)
\* mintTicket has been invoked by the flow
MintInvoked(f) ==
  mint[f].pc \in {"wait", "insert", "updateSold", "selectMinted", "updateMinted"}

MintOf(e) == {f \in MintFlows : MintActive(f) /\ mint[f].event = e}

\* C1: every mint that completes successfully leaves ticket_sold 1 higher and a
\* ticket row of the buyer: whenever no mint of an event is under way, its
\* ticket_sold is the number of mints completed (it starts at 0), also when
\* mints overlapped; and a flow past its insert has left the row linking the
\* buyer's email and wallet to the event.
C1_EveryMintCounted ==
  /\ \A e \in EventIds : MintOf(e) = {} => events[e].ticket_sold = minted[e]
  /\ \A f \in MintFlows :
       mint[f].pc \in {"updateSold", "selectMinted", "updateMinted"}
         => tickets[MintTicketId(f)] =
              NewTicket(mint[f].event, SessionUser(f), mint[f].wallet)

\* C2: mintTicket is invoked, and the store written, only by a flow whose
\* checks passed: a click on an expired event goes no further; a flow passes the
\* availability check only with a fetched ticket_sold below max_ticket and the
\* reputation check only with a fetched reputation of at least reputation_req;
\* a step that rejects a flow writes nothing, and nothing is written or sent to
\* the chain except by a flow past its checks.
C2_ChecksBeforeChain ==
  /\ [](\A f \in MintFlows :
          MintPastChecks(f) =>
            /\ mint[f].soldRead < events[mint[f].event].max_ticket
            /\ mint[f].repRead >= events[mint[f].event].reputation_req)
  /\ [][\A f \in MintFlows :
          /\ (mint[f].pc = "idle" /\ mint'[f].pc = "getUser")
               => ~isEventExpired(events[mint'[f].event].date, now)
          /\ (mint[f].pc = "fetchEvent" /\ mint'[f].pc = "fetchProfile")
               => events[mint[f].event].ticket_sold < events[mint[f].event].max_ticket
          /\ (MintPastChecks(f)' /\ ~MintPastChecks(f))
               => /\ mint[f].pc = "fetchProfile"
                  /\ user_profiles[SessionUser(f)].reputation
                       >= events[mint[f].event].reputation_req
          /\ (mint'[f].pc = "failed" /\ mint[f].pc # "failed")
               => UNCHANGED <<store, chainMints>>]_vars
  /\ [][(store' # store \/ chainMints' # chainMints)
          => \E f \in MintFlows : MintPastChecks(f)]_vars

\* a buyer was turned away for reputation while another flow reached the chain
C2_RejectedAtCheck ==
  /\ alertMsg = "reputation"
  /\ \E f \in MintFlows : mint[f].pc = "failed"
  /\ \E f \in MintFlows : MintInvoked(f)

\* C3: no flow of an event's organizer (the signed-in identity) ever has
\* mintTicket invoked, whatever wallet is connected.
C3_OrganizerNeverMints ==
  \A f \in MintFlows :
    SessionUser(f) = events[mint[f].event].organizer_email => ~MintInvoked(f)

C5_SoldAtMostMax ==
  \A e \in EventIds : events[e].ticket_sold <= events[e].max_ticket

\* two mints overlapped: the event holds more ticket rows than max_ticket
C5_OversoldRows ==
  \E e \in EventIds :
    /\ Cardinality(TicketsOf(e)) > events[e].max_ticket
    /\ events[e].ticket_sold = events[e].max_ticket

(***************************************************************************)
(* Properties of the resale purchase.                                      *)
(***************************************************************************)
\* the handler is past its checks: the chain call or a store write comes next
\* or has been made
PurchasePastChecks(f) ==
  purchase[f].pc \in {"requestAccounts", "buyResaleTicket", "wait", "delete", "updateTicket"}

\* handleBuy has written to the store or is at its chain call
BuyHasActed(g) == buy[g].pc \in {"markSold", "transfer", "wait"}

\* C6: in both entry points, handlePurchaseResale and handleBuy, a purchase by
\* the user who is the listing's seller is rejected before any chain call and
\* before any store write
C6_OwnListingRejected ==
  /\ \A f \in PurchaseFlows :
       PurchasePastChecks(f) => PurchaseUser(f) # purchase[f].listing.seller_email
  /\ \A g \in BuyFlows :
       BuyHasActed(g) => BuyUser(g) # buy[g].listing.seller_email


(***************************************************************************)
(* Properties of the reputation: penalties and rewards.                    *)
(***************************************************************************)
\* C7: the missed-event penalty is applied at most once per ticket: after the
\* first fetch that decrements the viewer's reputation for a ticket, no later
\* fetch decrements it again for that ticket
C7_PenalisedOnce == \A i \in SeedIds : penalties[i] <= 1

\* C8: in every reachable state every user's reputation, in either table, is
\* an integer >= 0, whatever penalties and rewards were applied
C8_ReputationFloor ==
  \A u \in Users : user_profiles[u].reputation \in Nat /\ profiles[u].reputation \in Nat

\* the holder started with 3; two missed-event penalties left 0, not -1
C8_FlooredAtZero ==
  /\ user_profiles["u1"].reputation = 0
  /\ \A i \in {1, 2} : penalties[i] = 1

\* no penalty has been written to the reputation of u
Undisturbed(u) ==
  /\ \A i \in SeedIds : tickets[i].user_email = u => penalties[i] = 0
  /\ \A e \in EventIds : events[e].organizer_email = u => cancelPenalties[e] = 0

\* every ticket of u is marked attended, and u has one
Attended(u) ==
  /\ \E i \in SeedIds : tickets[i].user_email = u
  /\ \A i \in SeedIds : tickets[i].user_email = u => tickets[i].attended

\* C9: one mark-attendance invocation whose store calls all succeed sets
\* attended on the attendee's ticket and leaves the attendee's reputation 5
\* higher and total_events_attended 1 higher, in either version of the handler
C9_OneMarkRewards ==
  \A u \in Users :
    (/\ markCalls["A"][u] + markCalls["B"][u] = 1
     /\ marksDone["A"][u] + marksDone["B"][u] = 1
     /\ Undisturbed(u))
    => /\ Attended(u)
       /\ user_profiles[u].reputation = OrgProfiles[u].reputation + AttendanceReward
       /\ user_profiles[u].total_events_attended = OrgProfiles[u].total_events_attended + 1

\* C10: k invocations in sequence of handleMarkAttendance (the version with
\* one profile update) for the same attendee add 5*k to the reputation and k
\* to total_events_attended, and the tickets stay attended from the first on
C10_RepeatedMarkRewards ==
  \A u \in Users :
    (/\ markCalls["A"][u] = 0
     /\ ~markOverlap
     /\ Undisturbed(u))
    => /\ user_profiles[u].reputation =
            OrgProfiles[u].reputation + marksDone["B"][u] * AttendanceReward
       /\ user_profiles[u].total_events_attended =
            OrgProfiles[u].total_events_attended + marksDone["B"][u]
       /\ marksDone["B"][u] >= 1 => Attended(u)

\* the attendee was marked twice, one invocation after the other
C10_MarkedTwice ==
  /\ marksDone["B"]["u1"] = 2
  /\ markCalls["A"]["u1"] = 0
  /\ ~markOverlap
  /\ user_profiles["u1"].reputation = OrgProfiles["u1"].reputation + 2 * AttendanceReward


(***************************************************************************)
(* Properties of the cancellation.                                         *)
(***************************************************************************)
\* C11: a click on Cancel Event for an event whose date is earlier than the
\* current time ends the handler there, with the error "Event already
\* happened" once the dialog is confirmed, and writes nothing: is_cancelled,
\* the refunded flags and the reputations are unchanged
C11_PastEventNotCancelled ==
  [][\A c \in CancelFlows :
       (/\ cancel[c].pc = "shown"
        /\ cancel'[c].pc # "shown"
        /\ events[cancel[c].event].date < now)
       => /\ cancel'[c].pc \in {"failed", "dismissed"}
          /\ cancel'[c].pc = "failed" => alertMsg' = "happened"
          /\ UNCHANGED <<events, tickets, user_profiles, profiles>>]_vars

\* the page was loaded before the date, the click came after it
C11_RejectedAsHappened ==
  /\ alertMsg = "happened"
  /\ \E c \in CancelFlows : cancel[c].pc = "failed"
  /\ \A e \in EventIds : ~events[e].is_cancelled


\* C12: a confirmed cancellation of a future-dated event that runs to its
\* success alert has set is_cancelled, has set refunded on every ticket of
\* the event that its select returned, sets the organizer's reputation to
\* max(0, reputation - 5), and no step of it changes a ticket of another event
C12_CancelCompletes ==
  /\ [][\A c \in CancelFlows :
          (CancelActive(c) /\ cancel'[c].pc = "done")
          => /\ events'[cancel[c].event].is_cancelled
             /\ \A i \in cancel[c].fetched : tickets'[i].refunded
             /\ user_profiles'[events[cancel[c].event].organizer_email].reputation =
                  PenalisedReputation(
                    user_profiles[events[cancel[c].event].organizer_email].reputation,
                    CancelPenalty)]_vars
  /\ [][\A i \in DOMAIN tickets :
          tickets'[i] # tickets[i]
          => \E c \in CancelFlows : CancelActive(c) /\ cancel[c].event = tickets[i].event_id]_vars


\* C13: cancellation is one-way: once is_cancelled of an event is true in the
\* store it is true in every later state, whatever handler runs afterwards
C13_CancelledForGood ==
  [][\A e \in EventIds : events[e].is_cancelled => events'[e].is_cancelled]_vars

\* the row of a cancelled event was written by a mint as well
C13_WrittenAfterCancel ==
  \E e \in EventIds :
    /\ events[e].is_cancelled
    /\ events[e].ticket_sold >= 1
    /\ \E i \in DOMAIN tickets : tickets[i] # NoRow /\ tickets[i].event_id = e /\ ~tickets[i].refunded


(***************************************************************************)
(* Frame of a failed mint.                                                 *)
(***************************************************************************)
\* the flow has not had its chain call confirmed
MintBeforeReceipt(f) ==
  mint[f].pc \in {"idle", "getUser", "fetchEvent", "fetchProfile", "mintTicket", "wait"}

\* C14: a mint flow that fails at a precondition or at its chain call writes
\* nothing: every step of a flow up to the confirmation of mintTicket leaves
\* the tickets, the events and the profiles as they are, such a flow has no
\* ticket row, and rows and ticket_sold never exceed the confirmed mints
C14_FailedMintWritesNothing ==
  /\ [](\A f \in MintFlows :
          (MintBeforeReceipt(f) \/ mint[f].pc = "insert") => tickets[MintTicketId(f)] = NoRow)
  /\ [](\A e \in EventIds :
          /\ Cardinality(TicketsOf(e)) <= chainMints[e]
          /\ events[e].ticket_sold <= chainMints[e])
  /\ [][\A f \in MintFlows :
          (MintBeforeReceipt(f) /\ mint'[f] # mint[f])
          => UNCHANGED <<events, tickets, user_profiles>>]_vars

\* the confirmation of mintTicket failed and the store holds what it held
C14_ChainFailedStoreIntact ==
  /\ alertMsg = "chain"
  /\ \E f \in MintFlows : mint[f].pc = "failed"
  /\ \A i \in DOMAIN tickets : tickets[i] = NoRow
  /\ \A e \in EventIds : events[e].ticket_sold = 0
  /\ \A u \in Users : user_profiles[u].total_tickets_minted = 0


(***************************************************************************)
(* Properties of the resale listings.                                      *)
(***************************************************************************)
\* the purchase has its receipt: the store writes of the handler follow
PurchaseConfirmed(f) == purchase[f].pc \in {"delete", "updateTicket"}

\* C15: in both purchase paths no store write (deletion or sold-marking of the
\* listing, reassignment of the ticket) happens before the receipt of the
\* chain call is confirmed: a step that changes a listing or a ticket is the
\* step of a purchase that has its receipt, and a purchase whose chain call
\* failed has changed neither
C15_WritesAfterReceipt ==
  /\ [][(tickets' # tickets \/ resale_listings' # resale_listings)
          => \E f \in PurchaseFlows : PurchaseConfirmed(f) /\ purchase'[f] # purchase[f]]_vars
  /\ [][\A g \in BuyFlows :
          (buy[g].pc \in {"transfer", "wait"} /\ buy'[g].pc = "failed")
          => /\ resale_listings[buy[g].listing.id] # NoRow
             /\ ~resale_listings[buy[g].listing.id].is_sold
             /\ tickets[buy[g].listing.ticket_id].user_email = buy[g].listing.seller_email]_vars


(* The resale listing of a ticket: two My Tickets pages of the holder u1, the
   organizer's cancellation of the event, and one buyer on the Resale page. *)
InitListing ==
  /\ now = 0
  /\ events = [InitEvents(1, 1) EXCEPT !["e1"].ticket_sold = 1]
  /\ tickets = [i \in SeedIds |-> SeedTicket(i)]
  /\ user_profiles = InitProfiles
  /\ alertMsg = ""
  /\ NoMint
  /\ resale_listings = [l \in 1..(NListing + NOffer) |-> NoRow]
  /\ chainResales = 0
  /\ purchase = [f \in PurchaseFlows |-> PurchaseIdle]
  /\ buy = [g \in BuyFlows |-> BuyIdle]
  /\ offer = [p \in OfferFlows |-> OfferIdle]
  /\ NoOrg
  /\ NoViews

NextListing ==
  \/ Tick
  \/ \E p \in OfferFlows, i \in SeedIds, fetchedOk \in BOOLEAN : OfferView(p, i, fetchedOk)
  \/ \E p \in OfferFlows, loggedIn \in BOOLEAN : HandleResale(p, loggedIn)
  \/ \E p \in OfferFlows, ok \in BOOLEAN : ResaleInsert(p, ok)
  \/ \E p \in OfferFlows, loggedIn \in BOOLEAN : HandleCancelResale(p, loggedIn)
  \/ \E p \in OfferFlows, ok \in BOOLEAN : CancelResaleDelete(p, ok)
  \/ \E c \in OnePage, e \in EventIds : CancelView(c, e)
  \/ \E c \in OnePage, confirmed \in BOOLEAN : HandleCancelEvent(c, confirmed)
  \/ \E c \in OnePage, ok \in BOOLEAN : CancelUpdateEvent(c, ok)
  \/ \E c \in OnePage, ok \in BOOLEAN : CancelSelectTickets(c, ok)
  \/ \E c \in OnePage, ok \in BOOLEAN : CancelRefund(c, ok)
  \/ \E c \in OnePage, ok \in BOOLEAN : CancelSelectProfile(c, ok)
  \/ \E c \in OnePage, ok \in BOOLEAN : CancelUpdateProfile(c, ok)
  \/ \E f \in OnePage, l \in (NListing + 1)..(NListing + NOffer) : FetchResaleTickets(f, l)
  \/ \E f \in OnePage : HandlePurchaseResale(f)
  \/ \E f \in OnePage, loggedIn \in BOOLEAN, confirmed \in BOOLEAN, eth \in BOOLEAN :
       PurchaseGetUser(f, loggedIn, confirmed, eth)
  \/ \E f \in OnePage, ok \in BOOLEAN : PurchaseConnect(f, ok)
  \/ \E f \in OnePage, ok \in BOOLEAN : PurchaseCallChain(f, ok)
  \/ \E f \in OnePage, ok \in BOOLEAN : PurchaseWait(f, ok)
  \/ \E f \in OnePage, ok \in BOOLEAN : PurchaseDelete(f, ok)
  \/ \E f \in OnePage, ok \in BOOLEAN : PurchaseUpdateTicket(f, ok)

SpecListing == InitListing /\ [][NextListing]_vars

\* C16: a resale listing row is inserted only while the event of the offered
\* ticket is not expired and not cancelled and the ticket is not attended.
C16_ListedOnlyWhileResalable ==
  [][\A p \in OfferFlows :
       (offer[p].pc = "insert" /\ resale_listings' # resale_listings)
         => canResale(offer[p].ticket)]_vars

\* C17: at most one active listing per (event, seller) pair.
C17_OneActiveListing ==
  \A e \in EventIds, u \in Users : Cardinality(ActiveListings(e, u)) <= 1


\* the callbacks of fetch flow f whose store request is outstanding
InFlight(f) == {i \in SeedIds : fetch[f].rows[i].pc # "return"}

\* C18: a flow has at most one store operation outstanding at a time: the
\* ticket-list fetch works on one ticket row after the other.
C18_OneStepAtATime == \A f \in FetchFlows : Cardinality(InFlight(f)) <= 1


\* the tickets of user u that count as missed
Qualifying(u) ==
  {i \in SeedIds : tickets[i] # NoRow /\ tickets[i].user_email = u /\ isMissed(i)}

\* C20: when the first fetch of the current page returns for a user with
\* reputation r and N missed, unflagged tickets, the user's reputation is
\* max(0, r - 2N) and the N tickets are flagged.
C20_PenaltyPerTicket ==
  [][\A f \in FetchFlows :
       (/\ fetch[f].pc = "map"
        /\ fetch'[f].pc = "done"
        /\ fetch[f].version = "current"
        /\ \A g \in FetchFlows \ {f} : fetch[g].pc = "idle")
       => /\ user_profiles'[FetchUser(f)].reputation =
               PenalisedReputation(OrgProfiles[FetchUser(f)].reputation,
                                   MissedPenalty * Cardinality(Qualifying(FetchUser(f))))
          /\ \A i \in Qualifying(FetchUser(f)) : tickets'[i].reputation_decreased]_vars


(* The views that subscribe to realtime changes.  A request that was issued
   is answered, so every await of initialize() is left eventually; mounting
   and unmounting are up to the user. *)
InitViews == InitOrg

InitialiseStep(v) ==
  \/ \E ok \in BOOLEAN : FetchProfileGetUser(v, ok)
  \/ \E ok \in BOOLEAN : FetchProfileSelect(v, ok)
  \/ \E loggedIn \in BOOLEAN : SetupRealtimeGetUser(v, loggedIn)
  \/ \E ok \in BOOLEAN : SetupRealtimeSubscribe(v, ok)

NextViews ==
  \/ \E v \in ProfileViews : ProfileMount(v)
  \/ \E v \in ProfileViews, ok \in BOOLEAN : FetchProfileGetUser(v, ok)
  \/ \E v \in ProfileViews, ok \in BOOLEAN : FetchProfileSelect(v, ok)
  \/ \E v \in ProfileViews, loggedIn \in BOOLEAN : SetupRealtimeGetUser(v, loggedIn)
  \/ \E v \in ProfileViews, ok \in BOOLEAN : SetupRealtimeSubscribe(v, ok)
  \/ \E v \in ProfileViews : ProfileUnmount(v)
  \/ \E d \in DashboardViews : DashboardMount(d)
  \/ \E d \in DashboardViews : DashboardUnmount(d)

SpecViews ==
  /\ InitViews
  /\ [][NextViews]_vars
  /\ \A v \in ProfileViews : WF_vars(InitialiseStep(v))

\* C19: once a view has unmounted, its realtime channel is eventually removed
\* from the client and stays removed, whenever the unmount happens.
C19_TornDownAfterUnmount ==
  /\ \A v \in ProfileViews :
       [](ProfileUnmounted(v) => <>[](ProfileChannel(v) \notin channels))
  /\ \A d \in DashboardViews :
       [](dashboardPage[d] = "unmounted" => <>[](EventsChannel(d) \notin channels))


\* callback i of the current page's fetch f leaves the await at pc
CallbackLeaves(f, i, pc) ==
  /\ fetch[f].pc = "map"
  /\ fetch[f].version = "current"
  /\ fetch[f].rows[i].pc = pc
  /\ fetch'[f] # fetch[f]

\* C21: the current page's fetch goes to the store only for the viewer's
\* tickets that it read as missed (date passed, not attended, event not
\* cancelled) and not yet flagged; the viewer's reputation is written only by
\* the callback of such a ticket, a ticket row only by its own callback, and
\* of the row only reputation_decreased is changed.
C21_OnlyQualifyingPenalised ==
  /\ [][\A f \in FetchFlows, i \in SeedIds :
          (/\ fetch[f].pc = "select"
           /\ fetch[f].version = "current"
           /\ fetch'[f].pc = "map"
           /\ fetch'[f].rows[i].pc # "return")
          => /\ tickets[i].user_email = FetchUser(f)
             /\ isMissed(i)
             /\ ~tickets[i].reputation_decreased]_vars
  /\ [][user_profiles' # user_profiles
          => \E f \in FetchFlows, i \in SeedIds :
               /\ CallbackLeaves(f, i, "updateReputation")
               /\ \A u \in Users \ {FetchUser(f)} : user_profiles'[u] = user_profiles[u]]_vars
  /\ [][\A i \in SeedIds :
          tickets'[i] # tickets[i]
            => /\ \E f \in FetchFlows : CallbackLeaves(f, i, "updateTicket")
               /\ tickets'[i] = [tickets[i] EXCEPT !.reputation_decreased = TRUE]]_vars

\* two loads of the page are over: each ticket was penalised once, the load
\* that found a ticket flagged left it alone
C21_FlaggedLeftAlone ==
  /\ \A f \in {1, 2} : fetch[f].pc = "done"
  /\ \A i \in {1, 2} : tickets[i].reputation_decreased /\ penalties[i] = 1
  /\ user_profiles["u1"].reputation = 0


\* C22: after the chain confirmed the mint, a failed ticket insert ends the
\* flow with an error and without a store write; a failed ticket_sold update
\* does not end it: the flow goes on to write the buyer's
\* total_tickets_minted as the count it read plus 1 and reports success; the
\* mint recorded on the chain is never taken back, and a flow that ended
\* writes nothing.
C22_AfterConfirmation ==
  /\ [][\A f \in MintFlows :
          (mint[f].pc = "insert" /\ mint'[f] # mint[f] /\ tickets' = tickets)
          => /\ mint'[f].pc = "failed"
             /\ alertMsg' = "insert"
             /\ UNCHANGED <<events, user_profiles>>]_vars
  /\ [][\A f \in MintFlows :
          (mint[f].pc = "updateSold" /\ mint'[f] # mint[f] /\ events' = events)
          => /\ mint'[f].pc = "selectMinted"
             /\ UNCHANGED <<tickets, user_profiles, alertMsg>>]_vars
  /\ [][\A f \in MintFlows :
          (/\ mint[f].pc = "updateMinted" /\ ~mint[f].soldOk
           /\ mint'[f] # mint[f] /\ user_profiles' # user_profiles)
          => /\ user_profiles'[SessionUser(f)].total_tickets_minted = mint[f].mintedRead + 1
             /\ mint'[f].pc = "done"
             /\ alertMsg' = "purchased"]_vars
  /\ [][\A e \in EventIds : chainMints'[e] >= chainMints[e]]_vars
  /\ [][<<events, tickets, user_profiles>>' # <<events, tickets, user_profiles>>
          => \E f \in MintFlows :
               mint[f].pc \in {"insert", "updateSold", "updateMinted"} /\ mint'[f] # mint[f]]_vars

\* a mint whose ticket_sold update failed was reported as purchased: the
\* ticket row is there, the buyer's count is 1, the event's counter is 0
C22_SoldUpdateFailed ==
  /\ alertMsg = "purchased"
  /\ \E f \in MintFlows :
       /\ mint[f].pc = "done"
       /\ tickets[MintTicketId(f)] # NoRow
       /\ events[tickets[MintTicketId(f)].event_id].ticket_sold = 0
       /\ chainMints[tickets[MintTicketId(f)].event_id] = 1
       /\ user_profiles[tickets[MintTicketId(f)].user_email].total_tickets_minted = 1


\* the Resale page alone: buyers who click Purchase on the seeded listings
NextPurchase ==
  \/ Tick
  \/ \E f \in PurchaseFlows, l \in ListingIds : FetchResaleTickets(f, l)
  \/ \E f \in PurchaseFlows : HandlePurchaseResale(f)
  \/ \E f \in PurchaseFlows, loggedIn \in BOOLEAN, confirmed \in BOOLEAN, eth \in BOOLEAN :
       PurchaseGetUser(f, loggedIn, confirmed, eth)
  \/ \E f \in PurchaseFlows, ok \in BOOLEAN : PurchaseConnect(f, ok)
  \/ \E f \in PurchaseFlows, ok \in BOOLEAN : PurchaseCallChain(f, ok)
  \/ \E f \in PurchaseFlows, ok \in BOOLEAN : PurchaseWait(f, ok)
  \/ \E f \in PurchaseFlows, ok \in BOOLEAN : PurchaseDelete(f, ok)
  \/ \E f \in PurchaseFlows, ok \in BOOLEAN : PurchaseUpdateTicket(f, ok)

SpecPurchase == InitResale /\ [][NextPurchase]_vars

\* C23: after the receipt of a resale purchase, a failed delete of the
\* listing ends the flow with its alert and without a write to the tickets;
\* the ticket update is reached only with the listing row deleted, and when
\* it fails the flow ends with the listing still deleted; the purchase on the
\* chain is never taken back and a flow that ended does not run again.
C23_AfterReceipt ==
  /\ [][\A f \in PurchaseFlows :
          (purchase[f].pc = "delete" /\ purchase'[f].pc = "failed")
          => /\ alertMsg' = "dbdelete"
             /\ UNCHANGED <<tickets, resale_listings, chainResales>>]_vars
  /\ [][\A f \in PurchaseFlows :
          (purchase[f].pc = "delete" /\ purchase'[f].pc = "updateTicket")
          => resale_listings'[purchase[f].listing.id] = NoRow]_vars
  /\ [][\A f \in PurchaseFlows :
          (purchase[f].pc = "updateTicket" /\ purchase'[f].pc = "failed")
          => /\ alertMsg' = "dbticket"
             /\ resale_listings'[purchase[f].listing.id] = NoRow
             /\ UNCHANGED <<tickets, resale_listings, chainResales>>]_vars
  /\ [][chainResales' >= chainResales]_vars
  /\ [][\A f \in PurchaseFlows :
          purchase[f].pc \in {"done", "failed"} => purchase'[f] = purchase[f]]_vars

\* the chain sold the ticket and the listing is deleted, but the ticket update
\* failed: the ticket row still names the seller
C23_TicketUpdateFailed ==
  /\ alertMsg = "dbticket"
  /\ chainResales = 1
  /\ resale_listings[1] = NoRow
  /\ tickets[1].user_email = "u1"
  /\ \E f \in PurchaseFlows : purchase[f].pc = "failed"


(* The My Tickets page of the seller u1 over a listings table that also holds
   a listing of another seller for the same event, a listing of u1 for
   another event and a listing of u1 that is sold. *)
OtherListing(k) ==
  [event_id |-> IF k = 2 THEN "e2" ELSE "e1",
   seller_email |-> IF k = 1 THEN "u2" ELSE "u1",
   seller_address |-> IF k = 1 THEN "0xb2" ELSE "0xa1",
   is_sold |-> (k = 3),
   ticket_id |-> NullId]

InitUnlist ==
  /\ now = 0
  /\ events = [InitEvents(1, 1) EXCEPT !["e1"].ticket_sold = NSeed]
  /\ tickets = [i \in SeedIds |-> SeedTicket(i)]
  /\ user_profiles = InitProfiles
  /\ alertMsg = ""
  /\ NoMint
  /\ resale_listings =
       [l \in 1..(NListing + NOffer + 3) |->
          IF l <= NListing THEN SeedListing(l)
          ELSE IF l <= NListing + NOffer THEN NoRow
          ELSE OtherListing(l - NListing - NOffer)]
  /\ chainResales = 0
  /\ purchase = [f \in PurchaseFlows |-> PurchaseIdle]
  /\ buy = [g \in BuyFlows |-> BuyIdle]
  /\ offer = [p \in OfferFlows |-> OfferIdle]
  /\ NoOrg
  /\ NoViews

NextUnlist ==
  \/ Tick
  \/ \E p \in OfferFlows, i \in SeedIds, fetchedOk \in BOOLEAN : OfferView(p, i, fetchedOk)
  \/ \E p \in OfferFlows, loggedIn \in BOOLEAN : HandleResale(p, loggedIn)
  \/ \E p \in OfferFlows, ok \in BOOLEAN : ResaleInsert(p, ok)
  \/ \E p \in OfferFlows, loggedIn \in BOOLEAN : HandleCancelResale(p, loggedIn)
  \/ \E p \in OfferFlows, ok \in BOOLEAN : CancelResaleDelete(p, ok)

SpecUnlist == InitUnlist /\ [][NextUnlist]_vars

\* C24: the delete of handleCancelResale removes only rows with the event of
\* the clicked ticket, the signed-in seller and is_sold = false; every other
\* listing row stays as it is and no ticket row is written.
C24_CancelResaleScoped ==
  [][\A p \in OfferFlows :
       (offer[p].pc = "delete" /\ offer'[p] # offer[p])
       => /\ \A l \in DOMAIN resale_listings :
               resale_listings'[l] # resale_listings[l]
                 => /\ resale_listings[l].event_id = offer[p].event
                    /\ resale_listings[l].seller_email = OfferUser(p)
                    /\ ~resale_listings[l].is_sold
                    /\ resale_listings'[l] = NoRow
          /\ tickets' = tickets]_vars

\* the seller's active listing of e1 is deleted; the other seller's listing,
\* the listing for e2 and the sold listing are still there
C24_OthersKept ==
  /\ alertMsg = "unlisted"
  /\ ActiveListings("e1", "u1") = {}
  /\ ActiveListings("e1", "u2") # {}
  /\ ActiveListings("e2", "u1") # {}
  /\ \E l \in DOMAIN resale_listings :
       /\ resale_listings[l] # NoRow
       /\ resale_listings[l].is_sold
       /\ resale_listings[l].seller_email = "u1"
       /\ resale_listings[l].event_id = "e1"


(* The Profile view of u1 next to a My Tickets page of u1 whose missed-event
   penalties change the profile row.  The browser may hold a cached profile
   of an earlier visit, or an item that is not JSON. *)
InitProfile ==
  /\ now = 0
  /\ events = [e \in EventIds |->
                 [InitEvents(NSeed, 0)[e] EXCEPT !.organizer_email = "u2",
                                                 !.ticket_sold = Cardinality({i \in SeedIds : SeedTicket(i).event_id = e})]]
  /\ tickets = [i \in SeedIds |-> SeedTicket(i)]
  /\ user_profiles = OrgProfiles
  /\ alertMsg = ""
  /\ NoMint
  /\ NoResale
  /\ NoOrg
  /\ profilePage = [v \in ProfileViews |-> ProfileIdle]
  /\ dashboardPage = [d \in DashboardViews |-> "idle"]
  /\ channels = {}
  /\ cachedProfile \in {NoCache, Corrupt, JSONstringify(InitProfiles["u1"])}
  /\ profileState = [v \in ProfileViews |-> InitialState]
  /\ refetch = [v \in ProfileViews |-> [k \in RefetchSlots |-> NoRefetch]]
  /\ notices = [v \in ProfileViews |-> 0]

NextProfile ==
  \/ Tick
  \/ \E f \in OnePage, v \in FetchVersions, loggedIn \in BOOLEAN : FetchTickets(f, v, loggedIn)
  \/ \E f \in OnePage, ok \in BOOLEAN : FetchSelect(f, ok)
  \/ \E f \in OnePage, i \in SeedIds, ok \in BOOLEAN : FetchSelectReputation(f, i, ok)
  \/ \E f \in OnePage, i \in SeedIds, ok \in BOOLEAN : FetchUpdateReputation(f, i, ok)
  \/ \E f \in OnePage, i \in SeedIds, ok \in BOOLEAN : FetchUpdateTicket(f, i, ok)
  \/ \E v \in OnePage : ProfileMount(v)
  \/ \E v \in OnePage, ok \in BOOLEAN : FetchProfileGetUser(v, ok)
  \/ \E v \in OnePage, ok \in BOOLEAN : FetchProfileSelect(v, ok)
  \/ \E v \in OnePage, loggedIn \in BOOLEAN : SetupRealtimeGetUser(v, loggedIn)
  \/ \E v \in OnePage, ok \in BOOLEAN : SetupRealtimeSubscribe(v, ok)
  \/ \E v \in OnePage : ProfileUnmount(v)
  \/ \E v \in OnePage, k \in RefetchSlots : RealtimeChange(v, k)
  \/ \E v \in OnePage, k \in RefetchSlots, ok \in BOOLEAN : RefetchGetUser(v, k, ok)
  \/ \E v \in OnePage, k \in RefetchSlots : RefetchSelect(v, k)
  \/ \E v \in OnePage, k \in RefetchSlots, ok \in BOOLEAN : RefetchResponse(v, k, ok)
  \/ \E v \in OnePage : HandleLogout(v)
  \/ \E v \in OnePage : LogoutReload(v)

SpecProfile == InitProfile /\ [][NextProfile]_vars


\* fetchProfile of view v fails in this step: in initialize() or in a call of
\* the realtime callback
FetchFails(v) ==
  \/ /\ profilePage[v].pc \in {"getUser", "select"}
     /\ profilePage'[v].pc = "initialised"
  \/ \E k \in RefetchSlots :
       /\ refetch[v][k].pc \in {"getUser", "response"}
       /\ refetch'[v][k].pc = "free"
       /\ profilePage'[v].pc # "reloaded"
       /\ cachedProfile' = cachedProfile
       /\ profileState'[v] # Shown(refetch[v][k].data)

\* C25: handleLogout ends with the cached profile removed; mounting over a
\* cached item that does not parse removes it; a fetchProfile that succeeds
\* leaves the cache holding the text of the profile it fetched, which parses
\* back to that profile; a fetchProfile that fails leaves a mounted view in
\* the error state with profile null, whatever it displayed.
C25_CachedProfile ==
  /\ [][\A v \in ProfileViews :
          (profilePage[v].signingOut /\ ~profilePage'[v].signingOut)
          => cachedProfile' = NoCache]_vars
  /\ [][\A v \in ProfileViews :
          (/\ profilePage[v].pc = "idle" /\ profilePage'[v].pc # "idle"
           /\ cachedProfile # NoCache /\ ParseFails(cachedProfile))
          => cachedProfile' = NoCache /\ profileState'[v] = InitialState]_vars
  /\ [][\A v \in ProfileViews :
          (profilePage[v].pc = "select" /\ profilePage'[v].pc = "setupGetUser")
          => /\ ~ParseFails(cachedProfile')
             /\ JSONparse(cachedProfile') = user_profiles[ProfileUser(v)]
             /\ profilePage[v].mounted
                  => profileState'[v] = Shown(user_profiles[ProfileUser(v)])]_vars
  /\ [][\A v \in ProfileViews, k \in RefetchSlots :
          (/\ refetch[v][k].pc = "response" /\ refetch'[v][k].pc = "free"
           /\ profilePage'[v].pc # "reloaded" /\ ~FetchFails(v))
          => /\ ~ParseFails(cachedProfile')
             /\ JSONparse(cachedProfile') = refetch[v][k].data
             /\ profilePage[v].mounted
                  => profileState'[v] = Shown(refetch[v][k].data)]_vars
  /\ [][\A v \in ProfileViews :
          (FetchFails(v) /\ profilePage[v].mounted)
          => /\ profileState'[v] = [loading |-> FALSE, error |-> TRUE, profile |-> NullProfile]
             /\ cachedProfile' = cachedProfile]_vars

\* the view showed the cached profile of an earlier visit and the fetch
\* failed: the view is in the error state, the cached item is still there
C25_ErrorOverCachedProfile ==
  \E v \in ProfileViews :
    /\ profilePage[v].mounted
    /\ profilePage[v].pc = "initialised"
    /\ profileState[v] = [loading |-> FALSE, error |-> TRUE, profile |-> NullProfile]
    /\ cachedProfile = JSONstringify(InitProfiles["u1"])


\* nothing is on its way to view v: no notification, no fetchProfile call
Settled(v) ==
  /\ notices[v] = 0
  /\ \A k \in RefetchSlots : refetch[v][k].pc = "free"

\* C26: when the last fetchProfile call that change notifications started
\* returns with a profile, and no notification is on its way, the mounted,
\* subscribed view shows the profile row as it is in the store.
C26_ViewEqualsStore ==
  [][\A v \in ProfileViews, k \in RefetchSlots :
       (/\ refetch[v][k].pc = "response"
        /\ refetch'[v][k].pc = "free"
        /\ profilePage'[v].mounted
        /\ ProfileChannel(v) \in channels'
        /\ ~profileState'[v].error
        /\ Settled(v)')
       => profileState'[v].profile = user_profiles'[ProfileUser(v)]]_vars


\* C27: for every event the ticket rows that mint flows inserted are at most
\* max_ticket.
C27_RowsAtMostMax ==
  \A e \in EventIds : Cardinality(TicketsOf(e)) <= events[e].max_ticket


\* C28: the ticket update that ends a successful resale purchase changes the
\* owner of exactly one ticket row, a ticket of the listed event that the
\* seller held; the number of ticket rows and the events stay as they are.
C28_OneTicketChangesHands ==
  [][\A f \in PurchaseFlows :
       (purchase[f].pc = "updateTicket" /\ purchase'[f].pc = "done")
       => /\ Cardinality({i \in DOMAIN tickets : tickets'[i] # tickets[i]}) = 1
          /\ \A i \in DOMAIN tickets :
               tickets'[i] # tickets[i]
                 => /\ tickets[i].event_id = purchase[f].listing.event_id
                    /\ tickets[i].user_email = purchase[f].listing.seller_email
                    /\ tickets'[i].user_email = PurchaseUser(f)
          /\ DOMAIN tickets' = DOMAIN tickets
          /\ events' = events]_vars


\* C29: a mint flow inserts no ticket row for an event that was cancelled in
\* the store when the flow called mintTicket.
C29_NoTicketForCancelled ==
  [][\A f \in MintFlows :
       (mint[f].pc = "insert" /\ tickets'[MintTicketId(f)] # NoRow)
       => ~mint[f].calledCancelled]_vars


(* The My Events page of the organizer u2, whose reputation is 10 here, open
   more than once: every page draws its Cancel buttons from the rows it
   fetched. *)
InitPenalty ==
  /\ now = 0
  /\ events = [e \in EventIds |->
                 [InitEvents(NSeed, 0)[e] EXCEPT !.organizer_email = "u2",
                                                 !.ticket_sold = Cardinality({i \in SeedIds : SeedTicket(i).event_id = e})]]
  /\ tickets = [i \in SeedIds |-> SeedTicket(i)]
  /\ user_profiles = [OrgProfiles EXCEPT !["u2"].reputation = 2 * CancelPenalty]
  /\ alertMsg = ""
  /\ NoMint
  /\ NoResale
  /\ NoOrg
  /\ NoViews

SpecPenalty == InitPenalty /\ [][NextCancel]_vars

\* C30: the cancellations lower an organizer's reputation by at most 5 for
\* each of the organizer's cancelled events.
C30_OnePenaltyPerEvent ==
  \A u \in Users :
    (IF u = "u2" THEN 2 * CancelPenalty ELSE OrgProfiles[u].reputation)
        - user_profiles[u].reputation
      <= CancelPenalty * Cardinality({e \in EventIds :
                                        events[e].organizer_email = u /\ events[e].is_cancelled})

=========================================================================
